---- MODULE Spec2Model ----
(***************************************************************************)
(* fluentquery: the transaction model (BaseTransaction, the in-memory      *)
(* Transaction with its two-tick auto-complete, PersistentTransaction),    *)
(* the copy-on-write view overlay of JSONObjectStore (TransactionHelper),  *)
(* the TransactionNode envelope and the Write node.                        *)
(***************************************************************************)
EXTENDS Integers, Sequences, FiniteSets, TLC

\* ---- bounds of the model ------------------------------------------------
NumValues == 2      \* distinct record values
MaxDelay == 2       \* delayComplete() calls per transaction after construction
MaxCalls == 2       \* idbTransaction.abort() calls per store transaction
MaxBatch == 2       \* tuples an input relation other than the store emits
MaxRows == 2        \* records in each store of a planned query
MaxTerms == 2       \* comparisons in one on(...) or where(...) predicate
MaxDepth == 2       \* nesting of RangeUnion and RangeIntersection
MaxIndexes == 2     \* secondary indexes of a store
MaxEquals == 2      \* equalities before the range of a composite index scan
MaxSubs == 3        \* substitution values of the templates parsed into term groups
MaxNodes == 3       \* nodes a query builder constructs before finalize()
MaxChain == 3       \* orderBy and where calls that follow one another
MaxRequests == 2    \* other requests served while the cursor of a scan is open

\* ---- the universe: two transactions T1 and T2 over one JSONObjectStore whose
\* tuples object has the property names "1" and "2" -----------------------
Txns == {1, 2}
Objects == {1}
Keys == {1, 2}
Values == 1..NumValues

Kinds == {"base", "memory", "persistent"}
Contexts == {1, 2, 3}
Consumers == {1, 2, 3}

\* ---- transaction state (transaction.js) ------------------------------------
VARIABLES
  kind,          \* class of each transaction object
  settled,       \* BaseTransaction.settled
  emitted,       \* events emitted by each transaction, in order
  promise,       \* state of BaseTransaction.promise: [state, error]
  idbState,      \* state of the underlying store transaction
  idbAbortCalls, \* number of idbTransaction.abort() calls made
  immediateId,   \* Transaction.immediateId (0 is undefined)
  immediates,    \* the queue of pending setImmediate callbacks
  ticksSince,    \* deferred callbacks run since the last delayComplete()
  delays         \* delayComplete() calls issued after construction

\* ---- overlay state (TransactionHelper, JSONObjectStore) ---------------------
VARIABLES
  object,        \* the underlying objects: own properties, Absent when missing
  helper,        \* per transaction: "none", "live" (viewMap is a Map), "dead" (viewMap undefined)
  viewMap,       \* TransactionHelper.viewMap: object -> view handle (0: no entry)
  views,         \* every view object created so far, by handle
  written        \* last value each transaction wrote to each property (history)

\* ---- one query execution (TransactionNode over a Write) ---------------------
VARIABLES
  pc,            \* "idle", "built", "reading", "done", "failed"
  qtxn,          \* context.transaction of the execution (0: none yet)
  qmode,         \* Write options: "insert", "upsert", "delete"
  qsel,          \* the input of the Write: the store under a selector ("same", "rename", "set", "throw") or "values"
  qval,          \* the record a "set" selector yields
  qview,         \* the view JSONObjectStore.execute obtained for reading
  qstore,        \* the object the Write's objectStore keeps its records in (0: none)
  qorder,        \* property names the for-in loop has still to visit
  buffer,        \* tuples collected by toArray()
  raised,        \* the error the child stream emitted ("none")
  delivered      \* the error the consumer received ("none")

\* ---- execution contexts and one Memoize node (tree.js) ----------------------
VARIABLES
  ctxMemo,       \* per context: the Map its relationMemo refers to (0: not constructed)
  ctxRoot,       \* per context: the context made from params it was copied from (history)
  relationMemo,  \* per Map: the observable stored for the Memoize node (0: undefined)
  streams,       \* every connected publishReplay() of the node's child, by handle
  subs           \* the observables Memoize.execute returned and their consumers

\* ---- one application of a function of the planner ---------------------------
VARIABLES
  arg,           \* the arguments of the call
  res            \* its result ("none" before the call)

txnVars == <<settled, emitted, promise>>
idbVars == <<idbState, idbAbortCalls>>
timerVars == <<immediateId, immediates, ticksSince>>
overlayVars == <<object, helper, viewMap, views, written>>
queryVars == <<pc, qtxn, qmode, qsel, qval, qview, qstore, qorder, buffer, raised, delivered>>
memoVars == <<ctxMemo, ctxRoot, relationMemo, streams, subs>>
calcVars == <<arg, res>>
engineVars == <<memoVars, calcVars>>
storeVars == <<kind, txnVars, idbVars, timerVars, delays, overlayVars, queryVars>>

vars == <<kind, settled, emitted, promise, idbState, idbAbortCalls,
          immediateId, immediates, ticksSince, delays,
          object, helper, viewMap, views, written,
          pc, qtxn, qmode, qsel, qval, qview, qstore, qorder, buffer, raised, delivered,
          ctxMemo, ctxRoot, relationMemo, streams, subs, arg, res>>

Absent == 0         \* the property is not an own property
Undef == -1         \* the property holds an explicit undefined

Pending == [state |-> "pending", error |-> "none"]

\* setImmediate returns a new handle: the least one that no callback pending
\* in q and no transaction other than t (which overwrites its own) holds.
FreshId(q, t) ==
  LET used == {q[i].id : i \in 1..Len(q)}
              \cup {immediateId[u] : u \in Txns \ {t}}
  IN  CHOOSE n \in 1..(Cardinality(used) + 1) :
        n \notin used /\ \A m \in 1..(n - 1) : m \in used

\* clearImmediate(id): the callback with that handle never runs.
ClearImmediate(q, id) == SelectSeq(q, LAMBDA e : e.id # id)

\* new Transaction() for every in-memory transaction, in order of creation:
\* super(), immediateId = undefined, this.delayComplete().
InitImmediates ==
  LET RECURSIVE Build(_, _)
      Build(t, q) ==
        IF t \notin Txns THEN q
        ELSE IF kind[t] = "memory"
             THEN Build(t + 1, Append(q, [id |-> Len(q) + 1, txn |-> t, stage |-> 1]))
             ELSE Build(t + 1, q)
  IN  Build(1, <<>>)

InitMemo ==
  /\ ctxMemo = [c \in Contexts |-> 0]
  /\ ctxRoot = [c \in Contexts |-> 0]
  /\ relationMemo = [c \in Contexts |-> 0]
  /\ streams = <<>>
  /\ subs = <<>>

InitCalc ==
  /\ arg = "none"
  /\ res = "none"

InitStore ==
  /\ kind \in [Txns -> Kinds]
  /\ settled = [t \in Txns |-> FALSE]
  /\ emitted = [t \in Txns |-> <<>>]
  /\ promise = [t \in Txns |-> Pending]
  /\ idbState = [t \in Txns |-> IF kind[t] = "persistent" THEN "active" ELSE "none"]
  /\ idbAbortCalls = [t \in Txns |-> 0]
  /\ immediates = InitImmediates
  /\ immediateId = [t \in Txns |->
       IF kind[t] = "memory"
       THEN Cardinality({u \in 1..t : kind[u] = "memory"})
       ELSE 0]
  /\ ticksSince = [t \in Txns |-> 0]
  /\ delays = [t \in Txns |-> 0]
  /\ object = [o \in Objects |-> [k \in Keys |-> IF k = 1 THEN 1 ELSE Absent]]
  /\ helper = [t \in Txns |-> "none"]
  /\ viewMap = [t \in Txns |-> [o \in Objects |-> 0]]
  /\ views = <<>>
  /\ written = [t \in Txns |-> [o \in Objects |-> [k \in Keys |-> Absent]]]
  /\ pc = "idle"
  /\ qtxn = 0
  /\ qmode = "insert"
  /\ qsel = "same"
  /\ qval = 1
  /\ qview = 0
  /\ qstore = 0
  /\ qorder = <<>>
  /\ buffer = <<>>
  /\ raised = "none"
  /\ delivered = "none"

Init == InitStore /\ InitMemo /\ InitCalc

\* ---- the view overlay ------------------------------------------------------
NoOwn == [k \in Keys |-> Absent]

\* view[k]: an own property of the view shadows the prototype's; a missing
\* property reads as undefined.
ReadIn(vs, obj, id, k) ==
  IF vs[id].own[k] # Absent THEN vs[id].own[k]
  ELSE IF obj[vs[id].object][k] # Absent THEN obj[vs[id].object][k]
  ELSE Undef

ReadView(id, k) == ReadIn(views, object, id, k)

\* view[k] = v
AssignIn(vs, id, k, v) == [vs EXCEPT ![id].own[k] = v]

\* TransactionHelper.getView without its cache: a new view on every call.
GetViewNoCache(t, o) ==
  [id |-> Len(views) + 1,
   views |-> Append(views, [txn |-> t, object |-> o, own |-> NoOwn]),
   viewMap |-> [viewMap EXCEPT ![t][o] = Len(views) + 1]]

\* TransactionHelper.getView looking the object up in a map shared by all
\* transactions: any view of the object is returned.
GetViewShared(t, o) ==
  IF \E i \in 1..Len(views) : views[i].object = o
  THEN LET i == CHOOSE j \in 1..Len(views) : views[j].object = o
       IN  [id |-> i, views |-> views, viewMap |-> [viewMap EXCEPT ![t][o] = i]]
  ELSE [id |-> Len(views) + 1,
        views |-> Append(views, [txn |-> t, object |-> o, own |-> NoOwn]),
        viewMap |-> [viewMap EXCEPT ![t][o] = Len(views) + 1]]

\* TransactionHelper.getView(object): the cached view, or a new one made with
\* Object.create(object) and entered in viewMap.
GetView(t, o) ==
  IF viewMap[t][o] # 0
  THEN [id |-> viewMap[t][o], views |-> views, viewMap |-> viewMap]
  ELSE [id |-> Len(views) + 1,
        views |-> Append(views, [txn |-> t, object |-> o, own |-> NoOwn]),
        viewMap |-> [viewMap EXCEPT ![t][o] = Len(views) + 1]]

\* getJSONView(transaction, object): the transaction's helper is created on
\* first use; a helper whose viewMap is undefined makes getView throw.
GetJSONView(t, o) ==
  IF helper[t] = "dead"
  THEN [ok |-> FALSE, id |-> 0, views |-> views, viewMap |-> viewMap, helper |-> helper]
  ELSE LET g == GetView(t, o)
       IN  [ok |-> TRUE, id |-> g.id, views |-> g.views, viewMap |-> g.viewMap,
            helper |-> [helper EXCEPT ![t] = "live"]]

\* The loop body of TransactionHelper.onComplete with the two branches swapped
\* out: an explicit undefined is stored instead of deleting the property.
CommitViewNoDelete(obj, own) ==
  [k \in Keys |-> IF own[k] = Absent \/ own[k] = Undef THEN obj[k] ELSE own[k]]

\* The loop body of TransactionHelper.onComplete for one (object, view) entry:
\* own properties of the view are copied, an explicit undefined deletes.
CommitView(obj, own) ==
  [k \in Keys |-> IF own[k] = Absent THEN obj[k]
                  ELSE IF own[k] = Undef THEN Absent
                  ELSE own[k]]

\* TransactionHelper.onComplete, the listener of "complete".
HelperOnComplete(t) ==
  /\ object' = [o \in Objects |->
       IF viewMap[t][o] # 0 THEN CommitView(object[o], views[viewMap[t][o]].own)
       ELSE object[o]]
  /\ helper' = [helper EXCEPT ![t] = "dead"]
  /\ viewMap' = [viewMap EXCEPT ![t] = [o \in Objects |-> 0]]

\* TransactionHelper.onAbort, the listener of "abort"; h and vm are the helpers
\* and their viewMaps at the time of the event.
HelperOnAbort(t, h, vm) ==
  /\ helper' = [h EXCEPT ![t] = "dead"]
  /\ viewMap' = [vm EXCEPT ![t] = [o \in Objects |-> 0]]
  /\ UNCHANGED object

\* ---- BaseTransaction ---------------------------------------------------------
\* onComplete without the settled test.
OnCompleteUnguarded(t) ==
  /\ settled' = [settled EXCEPT ![t] = TRUE]
  /\ emitted' = [emitted EXCEPT ![t] = Append(@, "complete")]
  /\ promise' = [promise EXCEPT ![t] =
       IF @.state = "pending" THEN [state |-> "resolved", error |-> "none"] ELSE @]
  /\ IF helper[t] = "live" THEN HelperOnComplete(t)
     ELSE UNCHANGED <<object, helper, viewMap>>

\* BaseTransaction.onComplete: settle, emit "complete" (its listeners run
\* inside emit), resolve the promise.
OnComplete(t) ==
  IF ~settled[t]
  THEN /\ settled' = [settled EXCEPT ![t] = TRUE]
       /\ emitted' = [emitted EXCEPT ![t] = Append(@, "complete")]
       /\ promise' = [promise EXCEPT ![t] = [state |-> "resolved", error |-> "none"]]
       /\ IF helper[t] = "live" THEN HelperOnComplete(t)
          ELSE UNCHANGED <<object, helper, viewMap>>
  ELSE UNCHANGED <<settled, emitted, promise, object, helper, viewMap>>

\* BaseTransaction.onAbort: settle, emit "abort" (its listeners run inside
\* emit), reject the promise. h and vm are the helpers and their viewMaps when
\* the call is made.
OnAbort(t, error, h, vm) ==
  IF ~settled[t]
  THEN /\ settled' = [settled EXCEPT ![t] = TRUE]
       /\ emitted' = [emitted EXCEPT ![t] = Append(@, "abort")]
       /\ promise' = [promise EXCEPT ![t] = [state |-> "rejected", error |-> error]]
       /\ IF h[t] = "live" THEN HelperOnAbort(t, h, vm)
          ELSE helper' = h /\ viewMap' = vm /\ UNCHANGED object
  ELSE /\ helper' = h
       /\ viewMap' = vm
       /\ UNCHANGED <<settled, emitted, promise, object>>

\* idbTransaction.abort(): an active store transaction starts aborting and its
\* "abort" event is delivered later; on a store transaction that is no longer
\* active (aborted before, or finished) the call throws InvalidStateError.
IdbAbort(t) ==
  /\ idbAbortCalls' = [idbAbortCalls EXCEPT ![t] = @ + 1]
  /\ idbState' = [idbState EXCEPT ![t] = IF @ = "active" THEN "aborting" ELSE @]

\* abort(error): BaseTransaction.abort, overridden by PersistentTransaction.abort
\* which first aborts the store transaction; when that call throws, super.abort
\* is not reached.
AbortCall(t, error, h, vm) ==
  IF kind[t] = "persistent"
  THEN /\ IdbAbort(t)
       /\ IF idbState[t] = "active" THEN OnAbort(t, error, h, vm)
          ELSE /\ helper' = h
               /\ viewMap' = vm
               /\ UNCHANGED <<settled, emitted, promise, object>>
  ELSE OnAbort(t, error, h, vm) /\ UNCHANGED idbVars

\* ---- Transaction (in-memory): the two-tick auto-complete -------------------
\* delayComplete without the clearImmediate of the pending callback.
DelayCompleteNoClear(t) ==
  LET id == FreshId(immediates, t)
  IN  /\ immediates' = Append(immediates, [id |-> id, txn |-> t, stage |-> 1])
      /\ immediateId' = [immediateId EXCEPT ![t] = id]
      /\ ticksSince' = [ticksSince EXCEPT ![t] = 0]

\* Transaction.delayComplete: cancel the pending callback, arm the first tick.
DelayComplete(t) ==
  LET q == IF immediateId[t] # 0 THEN ClearImmediate(immediates, immediateId[t])
           ELSE immediates
      id == FreshId(q, t)
  IN  /\ immediates' = Append(q, [id |-> id, txn |-> t, stage |-> 1])
      /\ immediateId' = [immediateId EXCEPT ![t] = id]
      /\ ticksSince' = [ticksSince EXCEPT ![t] = 0]

\* transaction.delayComplete() on any transaction: BaseTransaction's is empty.
DelayCompleteCall(t) ==
  IF kind[t] = "memory" THEN DelayComplete(t) ELSE UNCHANGED timerVars

\* ---- JSONObjectStore ---------------------------------------------------------
RECURSIVE SeqOf(_)
\* The elements of a set of integer-like property names in ascending order.
SeqOf(S) ==
  IF S = {} THEN <<>>
  ELSE LET m == CHOOSE x \in S : \A y \in S : x <= y
       IN  <<m>> \o SeqOf(S \ {m})

\* for (let n in view): the view's own properties, then those of its prototype
\* that the view does not shadow.
ForIn(id) ==
  SeqOf({k \in Keys : views[id].own[k] # Absent})
    \o SeqOf({k \in Keys : views[id].own[k] = Absent
                           /\ object[views[id].object][k] # Absent})

RECURSIVE AssignAll(_, _, _, _)
\* view[k] = v for every tuple in turn (v fixed to undefined by delete).
AssignAll(vs, id, tuples, del) ==
  IF tuples = <<>> THEN vs
  ELSE AssignAll(AssignIn(vs, id, Head(tuples).k, IF del THEN Undef ELSE Head(tuples).v),
                 id, Tail(tuples), del)

RECURSIVE WrittenAll(_, _, _)
WrittenAll(w, tuples, del) ==
  IF tuples = <<>> THEN w
  ELSE WrittenAll([w EXCEPT ![Head(tuples).k] = IF del THEN Undef ELSE Head(tuples).v],
                  Tail(tuples), del)

\* put without the scan for existing primary keys.
StorePutNoCheck(t, o, tuples, overwrite) ==
  LET g == GetJSONView(t, o)
  IN  IF ~g.ok
      THEN [err |-> "type", views |-> views, viewMap |-> viewMap, helper |-> helper]
      ELSE [err |-> "none", views |-> AssignAll(g.views, g.id, tuples, FALSE),
            viewMap |-> g.viewMap, helper |-> g.helper]

\* JSONObjectStore.put(context, tuples, overwrite): an insert fails before any
\* assignment when one primary key is already visible through the view.
StorePut(t, o, tuples, overwrite) ==
  LET g == GetJSONView(t, o)
  IN  IF ~g.ok
      THEN [err |-> "type", views |-> views, viewMap |-> viewMap, helper |-> helper]
      ELSE IF ~overwrite /\ \E i \in 1..Len(tuples) :
                              ReadIn(g.views, object, g.id, tuples[i].k) # Undef
      THEN [err |-> "exists", views |-> g.views, viewMap |-> g.viewMap, helper |-> g.helper]
      ELSE [err |-> "none", views |-> AssignAll(g.views, g.id, tuples, FALSE),
            viewMap |-> g.viewMap, helper |-> g.helper]

\* JSONObjectStore.delete(context, tuples): assign undefined through the view.
StoreDelete(t, o, tuples) ==
  LET g == GetJSONView(t, o)
  IN  IF ~g.ok
      THEN [err |-> "type", views |-> views, viewMap |-> viewMap, helper |-> helper]
      ELSE [err |-> "none", views |-> AssignAll(g.views, g.id, tuples, TRUE),
            viewMap |-> g.viewMap, helper |-> g.helper]

\* The store method a Write binds: delete when options.delete, else put with
\* options.overwrite.
StoreWrite(t, o, tuples, mode) ==
  IF mode = "delete" THEN StoreDelete(t, o, tuples)
  ELSE StorePut(t, o, tuples, mode = "upsert")

\* ---- TransactionNode and Write ------------------------------------------------
NextKey(k) == (k % Cardinality(Keys)) + 1

\* The selector of the Select under the Write, applied to one tuple: the store
\* itself as input ("same"), a new primary key ("rename"), a new record ("set").
Selector(sel, val, tuple) ==
  IF sel = "rename" THEN [k |-> NextKey(tuple.k), v |-> tuple.v]
  ELSE IF sel = "set" THEN [k |-> tuple.k, v |-> val]
  ELSE tuple

\* Write.execute down to its input. With the store itself as input,
\* JSONObjectStore.execute takes its view at once (a helper without viewMap
\* makes that throw) and the tuple stream is lazy; an input relation that is
\* not a store ("values") touches no view.
WriteExecute(t, o, sel) ==
  LET g == GetJSONView(t, o)
  IN  IF sel = "values"
      THEN /\ UNCHANGED <<views, viewMap, helper>>
           /\ pc' = "built"
           /\ qview' = 0
           /\ qstore' = o
           /\ delivered' = "none"
      ELSE IF g.ok
      THEN /\ views' = g.views
           /\ viewMap' = g.viewMap
           /\ helper' = g.helper
           /\ pc' = "built"
           /\ qview' = g.id
           /\ qstore' = o
           /\ delivered' = "none"
      ELSE /\ UNCHANGED <<views, viewMap, helper>>
           /\ pc' = "failed"
           /\ qview' = 0
           /\ qstore' = 0
           /\ delivered' = "type"

\* TransactionNode.execute without the test of context.transaction.settled.
TransactionNodeExecuteNoCheck(t, o, sel) ==
  /\ DelayCompleteCall(t)
  /\ WriteExecute(t, o, sel)

\* TransactionNode.execute: a settled transaction gives Observable.throw;
\* otherwise delayComplete() and the child is executed.
TransactionNodeExecute(t, o, sel) ==
  IF settled[t]
  THEN /\ pc' = "failed"
       /\ qview' = 0
       /\ qstore' = 0
       /\ delivered' = "settled"
       /\ UNCHANGED <<views, viewMap, helper, timerVars>>
  ELSE /\ DelayCompleteCall(t)
       /\ WriteExecute(t, o, sel)

\* The catch handler of TransactionNode.execute that only re-raises.
EnvelopeCatchNoAbort(t, error, h, vm) ==
  /\ UNCHANGED <<txnVars, idbVars, object>>
  /\ helper' = h
  /\ viewMap' = vm
  /\ raised' = error
  /\ delivered' = error
  /\ pc' = "failed"
  /\ qmode' = "insert"
  /\ qsel' = "same"
  /\ qval' = 1
  /\ qview' = 0
  /\ qstore' = 0
  /\ qorder' = <<>>
  /\ UNCHANGED qtxn

\* The catch handler of TransactionNode.execute: abort the transaction with the
\* child's error and re-raise it; an abort() that throws replaces the error the
\* consumer receives. h and vm are the helpers and their viewMaps the child
\* left behind.
EnvelopeCatch(t, error, h, vm) ==
  /\ AbortCall(t, error, h, vm)
  /\ raised' = error
  /\ delivered' = IF kind[t] = "persistent" /\ idbState[t] # "active"
                  THEN "invalidstate" ELSE error
  /\ pc' = "failed"
  /\ qmode' = "insert"
  /\ qsel' = "same"
  /\ qval' = 1
  /\ qview' = 0
  /\ qstore' = 0
  /\ qorder' = <<>>
  /\ UNCHANGED qtxn

\* ---- operations ---------------------------------------------------------------
\* JavaScript runs a synchronous subscription to completion: nothing else
\* happens while the tuple stream of a query is being produced.
Idle == pc # "reading"

Tuples == [k : Keys, v : Values]

\* The tuple sequences an input relation other than the store may emit.
Batches == UNION {[1..n -> Tuples] : n \in 0..MaxBatch}

\* transaction.complete()
Complete(t) ==
  /\ Idle
  /\ OnComplete(t)
  /\ UNCHANGED <<kind, engineVars, idbVars, timerVars, delays, views, written, queryVars>>

\* transaction.abort(error)
Abort(t) ==
  /\ Idle
  /\ kind[t] = "persistent" => idbAbortCalls[t] < MaxCalls
  /\ AbortCall(t, "user", helper, viewMap)
  /\ UNCHANGED <<kind, engineVars, timerVars, delays, views, written, queryVars>>

\* transaction.delayComplete() on an in-memory transaction.
Delay(t) ==
  /\ Idle
  /\ kind[t] = "memory"
  /\ delays[t] < MaxDelay
  /\ delays' = [delays EXCEPT ![t] = @ + 1]
  /\ DelayComplete(t)
  /\ UNCHANGED <<kind, engineVars, txnVars, idbVars, overlayVars, queryVars>>

\* The first deferred callback without the inner setImmediate.
FirstTickNoRearm ==
  /\ Idle
  /\ immediates # <<>>
  /\ Head(immediates).stage = 1
  /\ LET e == Head(immediates)
     IN  /\ immediates' = Tail(immediates)
         /\ immediateId' = [immediateId EXCEPT ![e.txn] = 0]
         /\ ticksSince' = [ticksSince EXCEPT ![e.txn] = @ + 1]
  /\ UNCHANGED <<kind, engineVars, txnVars, idbVars, overlayVars, delays, queryVars>>

\* The first deferred callback of delayComplete: arm the second one.
FirstTick ==
  /\ Idle
  /\ immediates # <<>>
  /\ Head(immediates).stage = 1
  /\ LET e == Head(immediates)
         id == FreshId(Tail(immediates), e.txn)
     IN  /\ immediates' = Append(Tail(immediates), [id |-> id, txn |-> e.txn, stage |-> 2])
         /\ immediateId' = [immediateId EXCEPT ![e.txn] = id]
         /\ ticksSince' = [ticksSince EXCEPT ![e.txn] = @ + 1]
  /\ UNCHANGED <<kind, engineVars, txnVars, idbVars, overlayVars, delays, queryVars>>

\* The second deferred callback: immediateId = undefined, this.complete().
SecondTick ==
  /\ Idle
  /\ immediates # <<>>
  /\ Head(immediates).stage = 2
  /\ LET e == Head(immediates)
     IN  /\ immediates' = Tail(immediates)
         /\ immediateId' = [immediateId EXCEPT ![e.txn] = 0]
         /\ ticksSince' = [ticksSince EXCEPT ![e.txn] = @ + 1]
         /\ OnComplete(e.txn)
  /\ UNCHANGED <<kind, engineVars, idbVars, delays, views, written, queryVars>>

\* The store transaction's "complete" event, observed by PersistentTransaction.
IdbCompleteEvent(t) ==
  /\ Idle
  /\ idbState[t] = "active"
  /\ idbState' = [idbState EXCEPT ![t] = "finished"]
  /\ OnComplete(t)
  /\ UNCHANGED <<kind, engineVars, idbAbortCalls, timerVars, delays, views, written, queryVars>>

\* The store transaction's "abort" event (after abort(), or a store failure).
IdbAbortEvent(t) ==
  /\ Idle
  /\ idbState[t] \in {"active", "aborting"}
  /\ idbState' = [idbState EXCEPT ![t] = "finished"]
  /\ OnAbort(t, "idb", helper, viewMap)
  /\ UNCHANGED <<kind, engineVars, idbAbortCalls, timerVars, delays, views, written, queryVars>>

\* getJSONView(transaction, object) called directly.
View(t, o) ==
  /\ Idle
  /\ LET g == GetJSONView(t, o)
     IN  /\ g.ok
         /\ views' = g.views
         /\ viewMap' = g.viewMap
         /\ helper' = g.helper
  /\ UNCHANGED <<kind, engineVars, txnVars, idbVars, timerVars, delays, object, written, queryVars>>

\* view[k] = v on a view the caller holds (v may be undefined).
Assign(id, k, v) ==
  /\ Idle
  /\ id \in 1..Len(views)
  /\ views' = AssignIn(views, id, k, v)
  /\ written' = [written EXCEPT ![views[id].txn][views[id].object][k] = v]
  /\ UNCHANGED <<kind, engineVars, txnVars, idbVars, timerVars, delays, object, helper, viewMap, queryVars>>

\* objectStore.put(context, tuples, overwrite) with context.transaction = t.
Put(t, o, tuples, overwrite) ==
  /\ Idle
  /\ LET r == StorePut(t, o, tuples, overwrite)
     IN  /\ r.err # "type"
         /\ views' = r.views
         /\ viewMap' = r.viewMap
         /\ helper' = r.helper
         /\ written' = IF r.err = "none"
                       THEN [written EXCEPT ![t][o] = WrittenAll(@, tuples, FALSE)]
                       ELSE written
  /\ UNCHANGED <<kind, engineVars, txnVars, idbVars, timerVars, delays, object, queryVars>>

\* objectStore.delete(context, tuples) with context.transaction = t.
Delete(t, o, tuples) ==
  /\ Idle
  /\ LET r == StoreDelete(t, o, tuples)
     IN  /\ r.err # "type"
         /\ views' = r.views
         /\ viewMap' = r.viewMap
         /\ helper' = r.helper
         /\ written' = [written EXCEPT ![t][o] = WrittenAll(@, tuples, TRUE)]
  /\ UNCHANGED <<kind, engineVars, txnVars, idbVars, timerVars, delays, object, queryVars>>

\* context.execute(new TransactionNode(new Write(input, store, options))) with
\* context.transaction = t; the input reads the same store.
Execute(t, o, mode, sel, val) ==
  /\ pc \in {"idle", "done", "failed"}
  /\ TransactionNodeExecute(t, o, sel)
  /\ qtxn' = t
  /\ qmode' = IF pc' = "built" THEN mode ELSE "insert"
  /\ qsel' = IF pc' = "built" THEN sel ELSE "same"
  /\ qval' = IF pc' = "built" /\ sel = "set" THEN val ELSE 1
  /\ qorder' = <<>>
  /\ buffer' = <<>>
  /\ raised' = "none"
  /\ UNCHANGED <<kind, engineVars, txnVars, idbVars, delays, object, written>>

\* subscribe(): the store's Observable.create callback starts its for-in loop;
\* an input relation other than the store emits its tuples at once.
Subscribe ==
  /\ pc = "built"
  /\ kind[qtxn] = "persistent" => idbAbortCalls[qtxn] < MaxCalls
  /\ pc' = "reading"
  /\ IF qsel = "values"
     THEN /\ qorder' = <<>>
          /\ \E b \in Batches : buffer' = b
     ELSE /\ qorder' = ForIn(qview)
          /\ UNCHANGED buffer
  /\ UNCHANGED <<kind, engineVars, txnVars, idbVars, timerVars, delays, overlayVars,
                 qtxn, qmode, qsel, qval, qview, qstore, raised, delivered>>

\* One iteration of the loop with the store method applied to each tuple as it
\* arrives instead of to the collected array.
ReadNextWriteThrough ==
  /\ pc = "reading"
  /\ qorder # <<>>
  /\ LET n == Head(qorder)
         v == ReadView(qview, n)
         tuple == Selector(qsel, qval, [k |-> n, v |-> v])
     IN  IF v = Undef
         THEN /\ qorder' = Tail(qorder)
              /\ UNCHANGED <<txnVars, idbVars, object, helper, viewMap, views, written,
                             pc, qtxn, qmode, qsel, qval, qview, qstore, buffer, raised, delivered>>
         ELSE IF qsel = "throw"
         THEN /\ EnvelopeCatch(qtxn, "thrown", helper, viewMap)
              /\ buffer' = <<>>
              /\ UNCHANGED <<views, written>>
         ELSE /\ qorder' = Tail(qorder)
              /\ buffer' = Append(buffer, tuple)
              /\ views' = StoreWrite(qtxn, qstore, <<tuple>>, qmode).views
              /\ UNCHANGED <<txnVars, idbVars, object, helper, viewMap, written,
                             pc, qtxn, qmode, qsel, qval, qview, qstore, raised, delivered>>
  /\ UNCHANGED <<kind, engineVars, timerVars, delays>>

\* One iteration of the for-in loop of JSONObjectStore.execute: a visible tuple
\* goes through the selector (which may throw) into toArray()'s buffer.
ReadNext ==
  /\ pc = "reading"
  /\ qorder # <<>>
  /\ LET n == Head(qorder)
         v == ReadView(qview, n)
         tuple == Selector(qsel, qval, [k |-> n, v |-> v])
     IN  IF v = Undef
         THEN /\ qorder' = Tail(qorder)
              /\ UNCHANGED <<txnVars, idbVars, object, helper, viewMap, views, written,
                             pc, qtxn, qmode, qsel, qval, qview, qstore, buffer, raised, delivered>>
         ELSE IF qsel = "throw"
         THEN /\ EnvelopeCatch(qtxn, "thrown", helper, viewMap)
              /\ buffer' = <<>>
              /\ UNCHANGED <<views, written>>
         ELSE /\ qorder' = Tail(qorder)
              /\ buffer' = Append(buffer, tuple)
              /\ UNCHANGED <<txnVars, idbVars, object, helper, viewMap, views, written,
                             pc, qtxn, qmode, qsel, qval, qview, qstore, raised, delivered>>
  /\ UNCHANGED <<kind, engineVars, timerVars, delays>>

\* The input completed: toArray() hands the array to the store method; its
\* error, if any, reaches the envelope's catch handler.
Flush ==
  /\ pc = "reading"
  /\ qorder = <<>>
  /\ LET o == qstore
         r == StoreWrite(qtxn, o, buffer, qmode)
     IN  IF r.err # "none"
         THEN /\ EnvelopeCatch(qtxn, r.err, r.helper, r.viewMap)
              /\ views' = r.views
              /\ UNCHANGED <<written, buffer>>
         ELSE /\ views' = r.views
              /\ viewMap' = r.viewMap
              /\ helper' = r.helper
              /\ written' = [written EXCEPT ![qtxn][o] = WrittenAll(@, buffer, qmode = "delete")]
              /\ pc' = "done"
              /\ qmode' = "insert"
              /\ qsel' = "same"
              /\ qval' = 1
              /\ qview' = 0
              /\ qstore' = 0
              /\ buffer' = <<>>
              /\ UNCHANGED <<txnVars, idbVars, object, qtxn, qorder, raised, delivered>>
  /\ UNCHANGED <<kind, engineVars, timerVars, delays>>

\* ---- PersistentObjectStore.put (indexeddb.js) ----------------------------------
\* The records of the object store of the external key/value store: those
\* committed, and those the store transaction of the ambient transaction
\* works on until it commits or rolls back.
InitialRecords == [k \in Keys |-> IF k = 1 THEN 1 ELSE Absent]

\* The input completed: toArray() hands the array to PersistentObjectStore.put,
\* which places one add (insert) or put (overwrite) request per tuple with the
\* store transaction and installs its handlers when mergeAll subscribes, in the
\* same turn. objectStore() throws on a store transaction that is no longer
\* active, and the exception reaches the envelope's catch handler; an empty
\* array gives Observable.from([]).
PersistentPut ==
  /\ pc = "reading"
  /\ qorder = <<>>
  /\ IF idbState[qtxn] # "active"
     THEN /\ EnvelopeCatch(qtxn, "invalidstate", helper, viewMap)
          /\ UNCHANGED <<views, written, buffer, res>>
     ELSE /\ pc' = IF buffer = <<>> THEN "done" ELSE "putting"
          /\ res' = [res EXCEPT !.requests = buffer, !.tuples = buffer,
                                !.before = res.working]
          /\ buffer' = <<>>
          /\ UNCHANGED <<txnVars, idbVars, overlayVars, qtxn, qmode, qsel, qval, qview,
                         qstore, qorder, raised, delivered>>
  /\ UNCHANGED <<kind, memoVars, arg, timerVars, delays>>

\* The store serves the oldest request. add() of a primary key the store
\* transaction already holds fires the request's error event with a
\* ConstraintError: onerror gives it to the observer and so to the envelope's
\* catch handler, whose abort() drops the requests still pending (their error
\* events find the observer closed and change nothing). Any other request
\* stores its record; the success event of the last request emits
\* every tuple and completes.
RequestEvent ==
  /\ pc = "putting"
  /\ idbState[qtxn] = "active"
  /\ LET tuple == Head(res.requests)
     IN  IF qmode = "insert" /\ res.working[tuple.k] # Absent
         THEN /\ EnvelopeCatch(qtxn, "constraint", helper, viewMap)
              /\ res' = [res EXCEPT !.requests = <<>>]
         ELSE /\ res' = [res EXCEPT !.working[tuple.k] = tuple.v,
                                    !.requests = Tail(@)]
              /\ pc' = IF Tail(res.requests) = <<>> THEN "done" ELSE "putting"
              /\ UNCHANGED <<txnVars, idbVars, object, helper, viewMap, qtxn, qmode,
                             qsel, qval, qview, qstore, qorder, raised, delivered>>
  /\ UNCHANGED <<kind, memoVars, arg, timerVars, delays, views, written, buffer>>

\* The store transaction is being aborted, by abort() or by the store itself,
\* with requests pending: each of them gets its error event (AbortError), a
\* task of its own, before the "abort" event.  The store transaction is no
\* longer active then.  While the observable of put is still subscribed to,
\* onerror gives the error to the observer and so to the envelope's catch
\* handler, where idbTransaction.abort() throws InvalidStateError: the query
\* fails and the transaction is not settled by it.  After that the observer
\* is closed and the error events of the other requests change nothing.
RequestError(t) ==
  /\ pc # "reading"
  /\ idbState[t] \in {"active", "aborting"}
  /\ res.requests # <<>>
  /\ res' = [res EXCEPT !.requests = Tail(@)]
  /\ idbState' = [idbState EXCEPT ![t] = "aborting"]
  /\ IF pc = "putting"
     THEN /\ idbAbortCalls[t] < MaxCalls
          /\ idbAbortCalls' = [idbAbortCalls EXCEPT ![t] = @ + 1]
          /\ pc' = "failed"
          /\ raised' = "abort"
          /\ delivered' = "invalidstate"
     ELSE UNCHANGED <<idbAbortCalls, pc, raised, delivered>>
  /\ UNCHANGED <<kind, memoVars, arg, txnVars, timerVars, delays, overlayVars,
                 qtxn, qmode, qsel, qval, qview, qstore, qorder, buffer>>

\* The "abort" event of the store transaction, after the error events of the
\* requests that were pending: the store transaction is finished, its working
\* records are dropped, and the listener of PersistentTransaction calls
\* onAbort.
StoreAbort(t) ==
  /\ pc # "reading"
  /\ idbState[t] \in {"active", "aborting"}
  /\ res.requests = <<>>
  /\ idbState' = [idbState EXCEPT ![t] = "finished"]
  /\ res' = [res EXCEPT !.working = res.committed]
  /\ OnAbort(t, "idb", helper, viewMap)
  /\ UNCHANGED <<kind, memoVars, arg, idbAbortCalls, timerVars, delays, views, written,
                 queryVars>>

\* The store transaction commits once no request is pending: its working
\* records become the store's, and the "complete" event reaches
\* PersistentTransaction.
StoreCommit(t) ==
  /\ pc \notin {"reading", "putting"}
  /\ idbState[t] = "active"
  /\ idbState' = [idbState EXCEPT ![t] = "finished"]
  /\ res' = [res EXCEPT !.committed = res.working]
  /\ OnComplete(t)
  /\ UNCHANGED <<kind, memoVars, arg, idbAbortCalls, timerVars, delays, views, written,
                 queryVars>>

\* ---- Context and Memoize (tree.js) ----------------------------------------------
\* Memoize.execute without relationMemo.set.
MemoizeExecuteNoSet(c) ==
  IF relationMemo[ctxMemo[c]] # 0
  THEN [observable |-> relationMemo[ctxMemo[c]], streams |-> streams,
        relationMemo |-> relationMemo]
  ELSE [observable |-> Len(streams) + 1,
        streams |-> Append(streams, [root |-> ctxRoot[c], out |-> <<>>, closed |-> FALSE]),
        relationMemo |-> relationMemo]

\* Memoize.execute(context): the observable stored in context.relationMemo, or
\* the child executed, published with replay, connected and stored.
MemoizeExecute(c) ==
  IF relationMemo[ctxMemo[c]] # 0
  THEN [observable |-> relationMemo[ctxMemo[c]], streams |-> streams,
        relationMemo |-> relationMemo]
  ELSE [observable |-> Len(streams) + 1,
        streams |-> Append(streams, [root |-> ctxRoot[c], out |-> <<>>, closed |-> FALSE]),
        relationMemo |-> [relationMemo EXCEPT ![ctxMemo[c]] = Len(streams) + 1]]

\* Contexts are named in order of construction.
NextContext(c) == ctxMemo[c] = 0 /\ \A b \in Contexts : b < c => ctxMemo[b] # 0

\* new Context(params): a context with a relationMemo Map of its own.
NewContext(c) ==
  /\ NextContext(c)
  /\ ctxMemo' = [ctxMemo EXCEPT ![c] = c]
  /\ ctxRoot' = [ctxRoot EXCEPT ![c] = c]
  /\ UNCHANGED <<storeVars, relationMemo, streams, subs, calcVars>>

\* new Context(context, {tuple}): Object.assign copies the reference to the
\* relationMemo Map of the context it is made from.
CopyContext(c, d) ==
  /\ ctxMemo[c] # 0
  /\ NextContext(d)
  /\ ctxMemo' = [ctxMemo EXCEPT ![d] = ctxMemo[c]]
  /\ ctxRoot' = [ctxRoot EXCEPT ![d] = ctxRoot[c]]
  /\ UNCHANGED <<storeVars, relationMemo, streams, subs, calcVars>>

\* context.execute(memoize): the caller holds the returned observable.
ExecuteMemoize(c) ==
  /\ ctxMemo[c] # 0
  /\ Len(subs) < Cardinality(Consumers)
  /\ LET r == MemoizeExecute(c)
     IN  /\ streams' = r.streams
         /\ relationMemo' = r.relationMemo
         /\ subs' = Append(subs, [ctx |-> c, stream |-> r.observable,
                                  state |-> "held", got |-> <<>>])
  /\ UNCHANGED <<storeVars, ctxMemo, ctxRoot, calcVars>>

\* subscribe() on a returned observable: the replay buffer is delivered at once.
SubscribeMemo(i) ==
  /\ i \in 1..Len(subs)
  /\ subs[i].state = "held"
  /\ subs' = [subs EXCEPT ![i].got = streams[subs[i].stream].out,
                          ![i].state = IF streams[subs[i].stream].closed
                                       THEN "complete" ELSE "open"]
  /\ UNCHANGED <<storeVars, ctxMemo, ctxRoot, relationMemo, streams, calcVars>>

\* The connected child, a scan of a store, emits the tuple of the next primary
\* key: it is buffered and multicast.
ChildNext(s, tuple) ==
  /\ s \in 1..Len(streams)
  /\ ~streams[s].closed
  /\ tuple.k = Len(streams[s].out) + 1
  /\ streams' = [streams EXCEPT ![s].out = Append(@, tuple)]
  /\ subs' = [i \in 1..Len(subs) |->
       IF subs[i].stream = s /\ subs[i].state = "open"
       THEN [subs[i] EXCEPT !.got = Append(@, tuple)]
       ELSE subs[i]]
  /\ UNCHANGED <<storeVars, ctxMemo, ctxRoot, relationMemo, calcVars>>

\* The connected child completes.
ChildComplete(s) ==
  /\ s \in 1..Len(streams)
  /\ ~streams[s].closed
  /\ streams' = [streams EXCEPT ![s].closed = TRUE]
  /\ subs' = [i \in 1..Len(subs) |->
       IF subs[i].stream = s /\ subs[i].state = "open"
       THEN [subs[i] EXCEPT !.state = "complete"]
       ELSE subs[i]]
  /\ UNCHANGED <<storeVars, ctxMemo, ctxRoot, relationMemo, calcVars>>

\* ---- relational tree (tree.js) and terms (expression.js) -----------------------
\* The relation names of a query, from({a}).join({b}), each over its own store.
Names == {"a", "b"}

\* The record { $otherwise: true } a non-inner join generates.
Otherwise == -1

\* A tuple maps each relation name to a record (its field x), to Otherwise for
\* the record {$otherwise: true}, or to Absent when the name is not a key.
EmptyTuple == [m \in Names |-> Absent]

\* Object.assign({}, t, u)
AssignTuple(t, u) == [m \in Names |-> IF u[m] # Absent THEN u[m] ELSE t[m]]

\* The comparisons a predicate is made of: l.x == c, l.x == r.x (both rewritten
\* to $$cmp(l, r) === 0), and l.x != c and l.x === c, which RANGE_OPS does not
\* list and which stay plain JavaScript.
AtomList ==
  << [op |-> "==", l |-> "a", r |-> "", c |-> 1],
     [op |-> "==", l |-> "b", r |-> "", c |-> 1],
     [op |-> "==", l |-> "a", r |-> "b", c |-> 0],
     [op |-> "!=", l |-> "b", r |-> "", c |-> 1],
     [op |-> "===", l |-> "b", r |-> "", c |-> 1] >>

\* The term ![1].includes(b.x): a call, true of the same records as b.x != 1.
CallAtom == [op |-> "call", l |-> "b", r |-> "", c |-> 1]

\* One comparison on a tuple: "error" when a relation is no key of the tuple
\* (TypeError) or when cmp gets the undefined field of an otherwise record;
\* the plain operators compare that undefined field without error.
EvalAtom(at, env) ==
  LET x == env[at.l]
      y == IF at.r = "" THEN at.c ELSE env[at.r]
  IN  IF x = Absent \/ y = Absent THEN "error"
      ELSE IF at.op = "==" THEN (IF x = Otherwise \/ y = Otherwise THEN "error"
                                 ELSE IF x = y THEN "true" ELSE "false")
      ELSE IF at.op = "===" THEN (IF x = y THEN "true" ELSE "false")
      ELSE IF x # y THEN "true" ELSE "false"

RECURSIVE EvalAtoms(_, _)
\* The conjunction e1 && e2 && ... of a merged term, left to right.
EvalAtoms(atoms, env) ==
  IF atoms = <<>> THEN "true"
  ELSE LET v == EvalAtom(Head(atoms), env)
       IN  IF v = "true" THEN EvalAtoms(Tail(atoms), env) ELSE v

RECURSIVE Flatten(_)
Flatten(ss) == IF ss = <<>> THEN <<>> ELSE Head(ss) \o Flatten(Tail(ss))

RECURSIVE ApplyPredicates(_, _, _)
\* applyPredicates(observable, predicates, context): a tuple passes when every
\* predicate holds of Object.assign({}, context.tuple, tuple); an exception
\* ends the stream with an error.
ApplyPredicates(tuples, predicates, ctx) ==
  IF tuples = <<>> \/ predicates = <<>> THEN [err |-> FALSE, out |-> tuples]
  ELSE LET v == EvalAtoms(Flatten(predicates), AssignTuple(ctx, Head(tuples)))
           rest == ApplyPredicates(Tail(tuples), predicates, ctx)
       IN  IF v = "error" \/ rest.err THEN [err |-> TRUE, out |-> <<>>]
           ELSE [err |-> FALSE,
                 out |-> IF v = "true" THEN <<Head(tuples)>> \o rest.out ELSE rest.out]

NoSchema == [m \in Names |-> 0]

RECURSIVE HasSchema(_)
\* node.schema() !== undefined
HasSchema(n) ==
  CASE n.class = "Select" -> FALSE
    [] n.class = "Where" -> HasSchema(n.relation)
    [] n.class = "CompositeUnion" -> HasSchema(n.lRelation)
    [] OTHER -> TRUE

RECURSIVE Schema(_)
\* node.schema(): relation name -> the NamedRelation that provides it (0: none).
Schema(n) ==
  CASE n.class = "NamedRelation" -> [m \in Names |-> IF m = n.name THEN n.id ELSE 0]
    [] n.class = "Join" ->
         LET L == Schema(n.lRelation)
             R == Schema(n.rRelation)
         IN  [m \in Names |-> IF R[m] # 0 THEN R[m] ELSE L[m]]
    [] n.class = "Where" -> Schema(n.relation)
    [] n.class = "CompositeUnion" -> Schema(n.lRelation)
    [] OTHER -> NoSchema

\* Term.merge(other): the conjunction; key ranges are defined for it only when
\* they are for both sides.
TermMerge(t, u) ==
  [deps |-> t.deps, atoms |-> t.atoms \o u.atoms, ranged |-> t.ranged /\ u.ranged]

\* DependencyMap.isEqual: the same names, each provided by the same relation;
\* unknownDependency (-1) is the same dependency as nothing, itself included.
SameDependencies(d, e) == \A m \in Names : d[m] = e[m] /\ d[m] # -1

\* A TermGroups object: its DependencyMap in insertion order. merge() leaves the
\* terms of its argument undefined.
TermGroups(terms) == [defined |-> TRUE, terms |-> terms]

Merged == [defined |-> FALSE, terms |-> <<>>]

RECURSIVE TermGroupsMerge(_, _)
\* TermGroups.merge(other), and the loop of parse: each incoming term is merged
\* into the term with the same dependencies, or added.
TermGroupsMerge(terms, other) ==
  IF other = <<>> THEN terms
  ELSE LET u == Head(other)
           hit == {i \in 1..Len(terms) : SameDependencies(terms[i].deps, u.deps)}
       IN  TermGroupsMerge(
             IF hit = {} THEN Append(terms, u)
             ELSE [i \in 1..Len(terms) |->
                     IF i \in hit THEN TermMerge(terms[i], u) ELSE terms[i]],
             Tail(other))

\* TermGroups.parse: one term per top-level conjunct, its dependencies resolved
\* in the schema (unknownDependency, -1, without one); terms with the same
\* known dependencies are merged. extractKeyRanges gives key ranges for $$cmp(...) === 0,
\* undefined for the binary operator != and for a === whose left side is not
\* the call of $$cmp, and the empty object, which is not undefined, for a call.
Parse(atoms, schema, known) ==
  TermGroupsMerge(<<>>,
    [i \in 1..Len(atoms) |->
       [deps |-> [m \in Names |->
                    IF m = atoms[i].l \/ m = atoms[i].r
                    THEN (IF known THEN schema[m] ELSE -1) ELSE 0],
        atoms |-> <<atoms[i]>>,
        ranged |-> atoms[i].op \notin {"!=", "==="}]])

\* ---- hoistPredicates (querybuilder.js) ------------------------------------------
\* The dependencies of a term are all provided, by the same nodes, in a schema.
Satisfied(t, schema) == \A m \in Names : t.deps[m] # 0 => t.deps[m] = schema[m]

\* A term depends on a relation of the schema.
Depends(t, schema) == \E m \in Names : t.deps[m] # 0 /\ t.deps[m] = schema[m]

\* Only the first of the terms taken is pushed.
PushTermsFirst(n, terms) ==
  IF terms = <<>> THEN n ELSE [n EXCEPT !.predicates = Append(@, terms[1].atoms)]

\* node.predicates.push(term.expression()) for each of the terms taken, in the
\* order of the DependencyMap.
PushTerms(n, terms) ==
  [n EXCEPT !.predicates = @ \o [i \in 1..Len(terms) |-> terms[i].atoms]]

\* fullJoin puts the one object buildRelation under both of its joins: what a
\* traversal pushes on it at one place shows at the other.
BuildId == 1

RECURSIVE PredicatesOf(_, _)
\* The predicates of the NamedRelation id, where it occurs below n.
PredicatesOf(n, id) ==
  CASE n.class = "NamedRelation" -> IF n.id = id THEN n.predicates ELSE <<>>
    [] n.class \in {"Join", "CompositeUnion"} ->
         PredicatesOf(n.lRelation, id) \o PredicatesOf(n.rRelation, id)
    [] OTHER -> PredicatesOf(n.relation, id)

RECURSIVE SetPredicates(_, _, _)
SetPredicates(n, id, predicates) ==
  CASE n.class = "NamedRelation" ->
         IF n.id = id THEN [n EXCEPT !.predicates = predicates] ELSE n
    [] n.class \in {"Join", "CompositeUnion"} ->
         [n EXCEPT !.lRelation = SetPredicates(@, id, predicates),
                   !.rRelation = SetPredicates(@, id, predicates)]
    [] OTHER -> [n EXCEPT !.relation = SetPredicates(@, id, predicates)]

RECURSIVE Hoist(_, _, _)
\* The traversal of hoistPredicates below one path: node, the terms available
\* on entering it, and the schema its left siblings under enclosing joins
\* provide. Gives the node put in its place and the terms still available.
Hoist(n, available, left) ==
  CASE n.class = "NamedRelation" ->
         LET own == Schema(n)
             availableSchema == [m \in Names |-> IF own[m] # 0 THEN own[m] ELSE left[m]]
             terms == SelectSeq(available, LAMBDA t : Satisfied(t, availableSchema))
         IN  [node |-> PushTerms(n, terms),
              available |-> SelectSeq(available, LAMBDA t : ~Satisfied(t, availableSchema))]
    [] n.class = "Where" ->
         IF HasSchema(n)
         THEN Hoist(n.relation, TermGroupsMerge(available, n.termGroups.terms), left)
         ELSE LET h == Hoist(n.relation, available, left)
              IN  [node |-> [PushTerms(n, n.termGroups.terms) EXCEPT !.relation = h.node],
                   available |-> h.available]
    [] n.class = "Join" ->
         LET rSchema == Schema(n.rRelation)
             Taken(t) == n.type # "inner" /\ ~t.ranged /\ Depends(t, rSchema)
             n1 == [PushTerms(n, SelectSeq(available, Taken)) EXCEPT !.termGroups = Merged]
             a1 == TermGroupsMerge(SelectSeq(available, LAMBDA t : ~Taken(t)),
                                   n.termGroups.terms)
             hl == Hoist(n.lRelation, a1, left)
             lSchema == Schema(hl.node)
             hr == Hoist(n.rRelation, hl.available,
                         [m \in Names |-> IF lSchema[m] # 0 THEN lSchema[m] ELSE left[m]])
         IN  [node |-> [n1 EXCEPT !.lRelation = hl.node, !.rRelation = hr.node],
              available |-> hr.available]
    [] n.class = "CompositeUnion" ->
         LET hl == Hoist(n.lRelation, available, left)
             hr == Hoist(n.rRelation, hl.available, left)
             pushed == PredicatesOf(hl.node, BuildId) \o PredicatesOf(hr.node, BuildId)
         IN  [node |-> [n EXCEPT !.lRelation = SetPredicates(hl.node, BuildId, pushed),
                                 !.rRelation = SetPredicates(hr.node, BuildId, pushed)],
              available |-> hr.available]
    [] OTHER ->
         LET h == Hoist(n.relation, available, left)
         IN  [node |-> [n EXCEPT !.relation = h.node], available |-> h.available]

\* hoistPredicates(root): the rewritten tree, or the error "Some terms were not
\* assigned to nodes".
HoistPredicates(root) ==
  LET h == Hoist(root, <<>>, NoSchema)
  IN  [err |-> h.available # <<>>, root |-> h.node]

\* ---- execution of a tree (tree.js) ----------------------------------------------
\* The tuples {[name]: record} of a store's records.
Named(n, st) ==
  [i \in 1..Len(st[n.relation]) |-> [m \in Names |-> IF m = n.name THEN st[n.relation][i] ELSE Absent]]

\* The join without its isEmpty and defaultIfEmpty: pairs only.
JoinOnePairs(n, aTuple, rights) ==
  [i \in 1..Len(rights) |-> AssignTuple(aTuple, rights[i])]

\* What a join makes of one left tuple and the tuples the right side gave it.
JoinOne(n, aTuple, rights) ==
  LET generated == AssignTuple(aTuple,
                     [m \in Names |-> IF Schema(n.rRelation)[m] # 0 THEN Otherwise ELSE Absent])
      pairs == [i \in 1..Len(rights) |-> AssignTuple(aTuple, rights[i])]
  IN  IF n.type = "inner" THEN pairs
      ELSE IF n.type = "anti" THEN (IF pairs = <<>> THEN <<generated>> ELSE <<>>)
      ELSE IF pairs = <<>> THEN <<generated>> ELSE pairs

RECURSIVE NodeExecute(_, _, _)
RECURSIVE JoinEach(_, _, _, _)
\* The mergeMap of Join.execute: the right side is executed once per left tuple
\* in a context whose tuple is Object.assign({}, context.tuple, aTuple).
JoinEach(n, lefts, ctx, st) ==
  IF lefts = <<>> THEN [err |-> FALSE, out |-> <<>>]
  ELSE LET r == NodeExecute(n.rRelation, AssignTuple(ctx, Head(lefts)), st)
           rest == JoinEach(n, Tail(lefts), ctx, st)
       IN  IF r.err \/ rest.err THEN [err |-> TRUE, out |-> <<>>]
           ELSE [err |-> FALSE, out |-> JoinOne(n, Head(lefts), r.out) \o rest.out]

\* node.execute(context) for a context with the tuple ctx over the stores st:
\* the tuples emitted, or an error.
NodeExecute(n, ctx, st) ==
  CASE n.class = "NamedRelation" -> ApplyPredicates(Named(n, st), n.predicates, ctx)
    [] n.class = "Join" ->
         LET l == NodeExecute(n.lRelation, ctx, st)
             j == IF l.err THEN l ELSE JoinEach(n, l.out, ctx, st)
         IN  IF j.err THEN [err |-> TRUE, out |-> <<>>]
             ELSE ApplyPredicates(j.out, n.predicates, ctx)
    [] n.class = "Where" ->
         LET c == NodeExecute(n.relation, ctx, st)
         IN  IF c.err THEN c ELSE ApplyPredicates(c.out, n.predicates, ctx)
    [] n.class = "CompositeUnion" ->
         LET l == NodeExecute(n.lRelation, ctx, st)
             r == NodeExecute(n.rRelation, ctx, st)
         IN  IF l.err \/ r.err THEN [err |-> TRUE, out |-> <<>>]
             ELSE [err |-> FALSE, out |-> l.out \o r.out]
    [] OTHER -> NodeExecute(n.relation, ctx, st)

\* ---- trees as the query builder makes them (querybuilder.js) --------------------
NamedRelation(name, id) ==
  [class |-> "NamedRelation", id |-> id, name |-> name, relation |-> name,
   predicates |-> <<>>]

Join(lRelation, rRelation, type) ==
  [class |-> "Join", type |-> type, lRelation |-> lRelation, rRelation |-> rRelation,
   termGroups |-> TermGroups(<<>>), predicates |-> <<>>]

\* from({a}).join({b}), leftJoin or antiJoin, then on(...): the predicate is
\* parsed into the join's termGroups with the schema of the join.
JoinOn(type, predicate) ==
  LET join == Join(NamedRelation("a", BuildId), NamedRelation("b", 2), type)
  IN  [join EXCEPT !.termGroups = TermGroups(Parse(predicate, Schema(join), TRUE))]

\* from({a}).fullJoin({b}).on(...): makeInnerJoin is called once for each join,
\* and the predicate is parsed into both with the schema of the union.
FullJoinOn(predicate) ==
  LET outerJoin == Join(NamedRelation("a", BuildId), NamedRelation("b", 2), "outer")
      antiJoin == Join(NamedRelation("b", 3), NamedRelation("a", BuildId), "anti")
      termGroups == TermGroups(Parse(predicate, Schema(outerJoin), TRUE))
  IN  [class |-> "CompositeUnion",
       lRelation |-> [outerJoin EXCEPT !.termGroups = termGroups],
       rRelation |-> [antiJoin EXCEPT !.termGroups = termGroups]]

\* where(...): parsed with buildRelation.schema().
Where(relation, predicate) ==
  [class |-> "Where", relation |-> relation,
   termGroups |-> TermGroups(Parse(predicate, Schema(relation), HasSchema(relation))),
   predicates |-> <<>>]

\* select(...) with a selector that keeps the fields a and b; it has no schema.
Select(relation) == [class |-> "Select", relation |-> relation]

\* The predicates written in on(...) and where(...): conjunctions of at most
\* MaxTerms comparisons, none for a call that is not made.
Conjunctions ==
  LET picks == {s \in UNION {[1..n -> 1..Len(AtomList)] : n \in 0..MaxTerms} :
                  \A p, q \in DOMAIN s : p < q => s[p] < s[q]}
  IN  {[k \in DOMAIN s |-> AtomList[s[k]]] : s \in picks}

JoinTrees ==
  {JoinOn(type, on) : type \in {"inner", "outer", "anti"}, on \in Conjunctions}
  \cup {FullJoinOn(on) : on \in Conjunctions}

Trees ==
  JoinTrees
  \cup {Where(j, w) : j \in JoinTrees, w \in Conjunctions \ {<<>>}}
  \cup {Where(Select(j), w) : j \in JoinTrees, w \in Conjunctions \ {<<>>}}
  \cup {Where(j, <<CallAtom>>) : j \in JoinTrees}

\* The records of the two stores: their field x, at most MaxRows records each.
Rows == UNION {[1..n -> {1, 2}] : n \in 0..MaxRows}

Stores == [Names -> Rows]

\* finalize(root): hoistPredicates on the tree the builder made.
Finalize ==
  /\ res.stage = "none"
  /\ res' = [stage |-> "plan", plan |-> HoistPredicates(arg.tree)]
  /\ UNCHANGED <<storeVars, memoVars, arg>>

\* The finalized plan is executed in a fresh context over the stores st: its
\* tuples, or its error.
Run(st) ==
  /\ res.stage = "plan"
  /\ ~res.plan.err
  /\ res' = [stage |-> "ran", plan |-> res.plan, stores |-> st,
             result |-> NodeExecute(res.plan.root, EmptyTuple, st)]
  /\ UNCHANGED <<storeVars, memoVars, arg>>

\* ---- key ranges (range.js) ------------------------------------------------------
\* The keys that bound a range; a bound of Undef is an undefined bound. The
\* values tested for inclusion lie on and between the bounds.
Points == {2, 4}
Probes == 1..5

\* new Range(lower, upper, lowerOpen, upperOpen), also what a RangeExpression
\* makes of the values its functions give in a context.
Ranges ==
  [lower : Points \cup {Undef}, upper : Points \cup {Undef},
   lowerOpen : BOOLEAN, upperOpen : BOOLEAN]

\* Range.prepare
RangePrepare(r) ==
  IF r.lower = Undef \/ r.upper = Undef THEN <<r>>
  ELSE IF r.lower < r.upper \/ (r.lower = r.upper /\ ~r.lowerOpen /\ ~r.upperOpen)
       THEN <<r>>
       ELSE <<>>

\* Range.includes
RangeIncludes(r, v) ==
  /\ r.lower # Undef => ~(v < r.lower) /\ ~(v = r.lower /\ r.lowerOpen)
  /\ r.upper # Undef => ~(v > r.upper) /\ ~(v = r.upper /\ r.upperOpen)

\* includes(ranges)(v)
Includes(ranges, v) == \E i \in 1..Len(ranges) : RangeIncludes(ranges[i], v)

\* cmp(a, b) of two keys
Cmp(a, b) == IF a < b THEN -1 ELSE IF a > b THEN 1 ELSE 0

\* Range.cmpUpper
CmpUpper(a, b) ==
  IF a.upper = Undef THEN (IF b.upper = Undef THEN 0 ELSE 1)
  ELSE IF b.upper = Undef THEN -1
  ELSE IF Cmp(a.upper, b.upper) # 0 THEN Cmp(a.upper, b.upper)
  ELSE IF ~a.upperOpen /\ b.upperOpen THEN 1
  ELSE IF ~b.upperOpen /\ a.upperOpen THEN -1
  ELSE 0

\* Range.cmpLower
CmpLower(a, b) ==
  IF a.lower = Undef THEN (IF b.lower = Undef THEN 0 ELSE -1)
  ELSE IF b.lower = Undef THEN 1
  ELSE IF Cmp(a.lower, b.lower) # 0 THEN Cmp(a.lower, b.lower)
  ELSE IF ~a.lowerOpen /\ b.lowerOpen THEN -1
  ELSE IF ~b.lowerOpen /\ a.lowerOpen THEN 1
  ELSE 0 - CmpUpper(a, b)

\* Ranges that touch always count as intersecting.
PartialIntersectsTouching(a, b) ==
  \/ b.lower = Undef \/ a.upper = Undef
  \/ b.lower <= a.upper

\* Range.partialIntersects
PartialIntersects(a, b) ==
  \/ b.lower = Undef \/ a.upper = Undef
  \/ b.lower < a.upper
  \/ b.lower = a.upper /\ ~(b.lowerOpen /\ a.upperOpen)

RECURSIVE MergeLower(_, _)
\* RangeUnion.prepare, first loop: the two lists merged by cmpLower.
MergeLower(left, right) ==
  IF left = <<>> \/ right = <<>> THEN left \o right
  ELSE IF CmpLower(left[1], right[1]) < 0
       THEN <<left[1]>> \o MergeLower(Tail(left), right)
       ELSE <<right[1]>> \o MergeLower(left, Tail(right))

RECURSIVE Coalesce(_, _)
\* RangeUnion.prepare, second loop: `at` absorbs the ranges it intersects;
\* at = <<>> stands for taking the next range from the input.
Coalesce(at, input) ==
  IF at = <<>>
  THEN (IF input = <<>> THEN <<>> ELSE Coalesce(<<input[1]>>, Tail(input)))
  ELSE IF input # <<>> /\ PartialIntersects(at[1], input[1])
       THEN Coalesce(
              IF CmpUpper(at[1], input[1]) < 0
              THEN <<[at[1] EXCEPT !.upper = input[1].upper,
                                   !.upperOpen = input[1].upperOpen]>>
              ELSE at,
              Tail(input))
       ELSE at \o Coalesce(<<>>, input)

\* RangeUnion.prepare on the prepared lists of its sides
RangeUnionPrepare(left, right) == Coalesce(<<>>, MergeLower(left, right))

RECURSIVE Inter(_, _, _)
\* RangeIntersection.prepare: the outer loop takes `at` from the list whose
\* first range has the lower lower bound, the inner loop shifts the ranges of
\* the other list that intersect it; at = <<>> stands for the outer loop.
Inter(at, left, right) ==
  IF at = <<>>
  THEN IF left = <<>> \/ right = <<>> THEN <<>>
       ELSE IF CmpLower(left[1], right[1]) > 0
            THEN Inter(<<right[1]>>, Tail(right), left)
            ELSE Inter(<<left[1]>>, Tail(left), right)
  ELSE IF right # <<>> /\ PartialIntersects(at[1], right[1])
       THEN LET inter == IF CmpUpper(right[1], at[1]) > 0
                         THEN [right[1] EXCEPT !.upper = at[1].upper,
                                               !.upperOpen = at[1].upperOpen]
                         ELSE right[1]
            IN  <<inter>> \o Inter(at, left, Tail(right))
       ELSE Inter(<<>>, left, right)

\* RangeIntersection.prepare on the prepared lists of its sides
RangeIntersectionPrepare(left, right) == Inter(<<>>, left, right)

\* Range.isEquality: "true" or "false"; cmp is reached only for a range closed
\* at both ends, and throws DataError for an undefined bound.
RangeIsEquality(r) ==
  IF r.lowerOpen \/ r.upperOpen THEN "false"
  ELSE IF r.lower = Undef \/ r.upper = Undef THEN "DataError"
  ELSE IF Cmp(r.lower, r.upper) = 0 THEN "true" ELSE "false"

\* What the other side of a RangeUnion or RangeIntersection prepares to.
Operands == {RangePrepare(r) : r \in Ranges}

\* new Range(...).prepare(context)
PrepareRange(r) ==
  /\ res.stage = "none"
  /\ arg' = [op |-> "Range", left |-> <<r>>, right |-> <<>>, depth |-> 0,
             equality |-> RangeIsEquality(r)]
  /\ res' = [stage |-> "prepared", out |-> RangePrepare(r)]
  /\ UNCHANGED <<storeVars, memoVars>>

\* new RangeUnion(left, right).prepare(context), one side being the range
\* prepared last.
PrepareUnion(other, swap) ==
  /\ res.stage = "prepared"
  /\ arg.depth < MaxDepth
  /\ LET left == IF swap THEN other ELSE res.out
         right == IF swap THEN res.out ELSE other
     IN  /\ arg' = [op |-> "RangeUnion", left |-> left, right |-> right,
                  depth |-> arg.depth + 1, equality |-> "false"]
         /\ res' = [stage |-> "prepared", out |-> RangeUnionPrepare(left, right)]
  /\ UNCHANGED <<storeVars, memoVars>>

\* new RangeIntersection(left, right).prepare(context), likewise; isEquality()
\* of the intersection is left.isEquality() || right.isEquality(): the right
\* side is asked only when the left side says false. A range the other side
\* prepared to nothing has its bounds crossed or an open end.
PrepareIntersection(other, swap) ==
  /\ res.stage = "prepared"
  /\ arg.depth < MaxDepth
  /\ LET left == IF swap THEN other ELSE res.out
         right == IF swap THEN res.out ELSE other
     IN  /\ arg' = [op |-> "RangeIntersection", left |-> left, right |-> right,
                  depth |-> arg.depth + 1,
                  equality |->
                    LET o == IF other = <<>> THEN "false" ELSE RangeIsEquality(other[1])
                        l == IF swap THEN o ELSE arg.equality
                        r == IF swap THEN arg.equality ELSE o
                    IN  IF l = "false" THEN r ELSE l]
         /\ res' = [stage |-> "prepared", out |-> RangeIntersectionPrepare(left, right)]
  /\ UNCHANGED <<storeVars, memoVars>>

\* ---- index selection (indexeddb.js) ---------------------------------------------
\* The key paths a store, an index or a key range can be on.
Paths == {"p", "q"}

\* source.keyPath as getKeyPaths reads it: null (no path), one path, or an
\* array of paths.
KeyPaths ==
  {s \in UNION {[1..n -> Paths] : n \in 0..2} : \A i, j \in DOMAIN s : i # j => s[i] # s[j]}

\* The secondary indexes a store can have; a multiEntry index is on one path.
Indexes ==
  {x \in [keyPaths : KeyPaths \ {<<>>}, unique : BOOLEAN, multiEntry : BOOLEAN] :
     x.multiEntry => Len(x.keyPaths) = 1}

\* usableKeyRanges(keyRanges, keyPaths): the key paths whose ranges are used,
\* up to the first path without a range or the first range that is no equality.
UsableKeyRanges(keyRanges, keyPaths) ==
  LET stop == {i \in 1..Len(keyPaths) : keyRanges[keyPaths[i]] # "equality"}
      first == CHOOSE i \in stop : \A j \in stop : i <= j
      n == IF stop = {} THEN Len(keyPaths)
           ELSE IF keyRanges[keyPaths[first]] = "none" THEN first - 1 ELSE first
  IN  SubSeq(keyPaths, 1, n)

\* Only the first loop over the indexes: the unique ones are not preferred.
ChooseBestIndexAny(store, keyRanges) ==
  LET usable == {i \in 1..Len(store.indexes) :
                   /\ ~store.indexes[i].multiEntry
                   /\ UsableKeyRanges(keyRanges.at, store.indexes[i].keyPaths) # <<>>}
      last == CHOOSE i \in usable : \A j \in usable : j <= i
  IN  IF ~keyRanges.defined THEN [index |-> -1, ranges |-> <<>>]
      ELSE IF UsableKeyRanges(keyRanges.at, store.keyPaths) # <<>>
           THEN [index |-> 0, ranges |-> UsableKeyRanges(keyRanges.at, store.keyPaths)]
      ELSE IF usable # {}
           THEN [index |-> last,
                 ranges |-> UsableKeyRanges(keyRanges.at, store.indexes[last].keyPaths)]
      ELSE [index |-> -1, ranges |-> <<>>]

\* chooseBestIndex(store, keyRanges): index 0 is the store itself (its primary
\* key), i the i-th of store.indexNames, -1 none. Each loop keeps the last
\* index it accepts.
ChooseBestIndex(store, keyRanges) ==
  LET usable == {i \in 1..Len(store.indexes) :
                   /\ ~store.indexes[i].multiEntry
                   /\ UsableKeyRanges(keyRanges.at, store.indexes[i].keyPaths) # <<>>}
      unique == {i \in usable : store.indexes[i].unique}
      last == CHOOSE i \in usable : \A j \in usable : j <= i
      lastUnique == CHOOSE i \in unique : \A j \in unique : j <= i
      best == IF unique # {} THEN lastUnique ELSE last
  IN  IF ~keyRanges.defined THEN [index |-> -1, ranges |-> <<>>]
      ELSE IF UsableKeyRanges(keyRanges.at, store.keyPaths) # <<>>
           THEN [index |-> 0, ranges |-> UsableKeyRanges(keyRanges.at, store.keyPaths)]
      ELSE IF usable # {}
           THEN [index |-> best,
                 ranges |-> UsableKeyRanges(keyRanges.at, store.indexes[best].keyPaths)]
      ELSE [index |-> -1, ranges |-> <<>>]

\* store.chooseBestIndex(store, keyRanges) for the store and key ranges of arg.
ChooseIndex ==
  /\ res.stage = "none"
  /\ res' = [stage |-> "chosen", best |-> ChooseBestIndex(arg.store, arg.keyRanges)]
  /\ UNCHANGED <<storeVars, memoVars, arg>>

\* ---- composite index scans (range.js, indexeddb.js) -----------------------------
\* nextUp(v) for a number: the least key above v. Keys are the integers here,
\* with no key between v and v + 1.
NextUp(v) == v + 1

RECURSIVE CmpKey(_, _)
\* cmp(a, b) of two array keys: by components, a proper prefix first.
CmpKey(a, b) ==
  IF a = <<>> THEN (IF b = <<>> THEN 0 ELSE -1)
  ELSE IF b = <<>> THEN 1
  ELSE IF a[1] # b[1] THEN Cmp(a[1], b[1])
  ELSE CmpKey(Tail(a), Tail(b))

\* compositeRange(equals, range), nextUp applied to the last component of the
\* upper bound whether or not an upper bound was given.
CompositeRangeNextUp(equals, range) ==
  [lower |-> IF range.lower # Undef THEN Append(equals, range.lower) ELSE equals,
   lowerOpen |-> range.lowerOpen,
   upper |-> IF range.upper # Undef THEN Append(equals, NextUp(range.upper))
             ELSE IF equals = <<>> THEN <<>>
             ELSE [equals EXCEPT ![Len(equals)] = NextUp(@)],
   upperOpen |-> range.upper # Undef \/ equals # <<>> \/ range.upperOpen]

\* compositeRange(equals, range); an upper of <<>> is an undefined upper bound.
CompositeRange(equals, range) ==
  [lower |-> IF range.lower # Undef THEN Append(equals, range.lower) ELSE equals,
   lowerOpen |-> range.lowerOpen,
   upper |-> IF range.upper # Undef
             THEN Append(equals, IF range.upperOpen THEN range.upper ELSE NextUp(range.upper))
             ELSE IF equals = <<>> THEN <<>>
             ELSE [equals EXCEPT ![Len(equals)] = NextUp(@)],
   upperOpen |-> range.upper # Undef \/ equals # <<>> \/ range.upperOpen]

\* The index keys with n components that the IDBKeyRange idbRange(range) holds.
IdbRange(range, n) ==
  {key \in [1..n -> Probes] :
     /\ CmpKey(key, range.lower) > 0 \/ (CmpKey(key, range.lower) = 0 /\ ~range.lowerOpen)
     /\ range.upper # <<>> =>
          CmpKey(key, range.upper) < 0 \/ (CmpKey(key, range.upper) = 0 /\ ~range.upperOpen)}

\* PersistentObjectStore.execute with an index over an array of key paths,
\* equalities on all but the last and the prepared range `range` on the last:
\* the observable of rangeStream over the composite range is built, no cursor
\* is opened yet.  res.records are the keys of the records the index holds.
Scan ==
  /\ res.stage = "none"
  /\ res' = [res EXCEPT !.stage = "built",
                        !.range = CompositeRange(arg.equals, arg.range)]
  /\ UNCHANGED <<storeVars, memoVars, arg>>

\* The observable of rangeStream is subscribed to: openCursor places the first
\* request of the cursor.
ScanSubscribe ==
  /\ res.stage = "built"
  /\ res' = [res EXCEPT !.stage = "open"]
  /\ UNCHANGED <<storeVars, memoVars, arg>>

\* request.onsuccess of rangeStream: the cursor stands on the first record of
\* the range behind the one it delivered last, as the index holds them when the
\* request is served; with a record, cursor.continue() places the next request
\* and the record is passed on, without one the stream completes.
CursorSuccess ==
  /\ res.stage = "open"
  /\ LET ahead == {key \in res.records \cap IdbRange(res.range, Len(arg.equals) + 1) :
                     res.visited = <<>>
                       \/ CmpKey(key, res.visited[Len(res.visited)]) > 0}
         cursor == CHOOSE key \in ahead : \A other \in ahead : CmpKey(key, other) <= 0
     IN  res' = IF ahead = {} THEN [res EXCEPT !.stage = "scanned"]
                ELSE [res EXCEPT !.visited = Append(@, cursor)]
  /\ UNCHANGED <<storeVars, memoVars, arg>>

\* Another request of the same store transaction is served between two events
\* of the cursor: store.delete removes the record with the index key `key`,
\* store.put or add writes one (PersistentObjectStore.put and delete place
\* such requests).  res.requests lists the keys so written or removed.
StoreRequest(key, method) ==
  /\ res.stage \in {"built", "open"}
  /\ Len(res.requests) < MaxRequests
  /\ res' = [res EXCEPT !.records = IF method = "delete" THEN @ \ {key} ELSE @ \cup {key},
                        !.requests = Append(@, key)]
  /\ UNCHANGED <<storeVars, memoVars, arg>>

\* ---- key ranges of a comparison (expression.js) ---------------------------------
\* extractKeyRanges on $$cmp(args[0], args[1]) op 0 for the key path args[i],
\* the other argument being the expression e: the RangeExpression made for the
\* key path (lower, upper: whether lowerFn, upperFn are e or undefined), or none.
ExtractKeyRanges(op, i, complement) ==
  LET first == (complement /\ i = 0) \/ (~complement /\ i = 1)
      greater == op \in {">=", ">"}
  IN  IF op = "==="
      THEN [found |-> ~complement, lower |-> ~complement, upper |-> ~complement,
            lowerOpen |-> FALSE, upperOpen |-> FALSE]
      ELSE IF first
      THEN [found |-> TRUE, lower |-> ~greater, upper |-> greater,
            lowerOpen |-> op = "<=", upperOpen |-> op = ">="]
      ELSE [found |-> TRUE, lower |-> greater, upper |-> ~greater,
            lowerOpen |-> op = ">", upperOpen |-> op = "<"]

\* TermGroups.parse of one comparison, Term.keyRanges(), and the range prepared
\* in a context where the other side has the value arg.e. The functions of the
\* range are compiled without the substitutions of the template, so that one
\* whose source reads $$subs[n] throws TypeError when the range is prepared.
Extract ==
  /\ res.stage = "none"
  /\ LET keyRange == ExtractKeyRanges(arg.op, arg.i, arg.complement)
         threw == keyRange.found /\ arg.form = "substitution"
     IN  res' = [stage |-> "extracted", keyRange |-> keyRange, threw |-> threw,
                 prepared |-> IF keyRange.found /\ ~threw
                              THEN RangePrepare(
                                     [lower |-> IF keyRange.lower THEN arg.e ELSE Undef,
                                      upper |-> IF keyRange.upper THEN arg.e ELSE Undef,
                                      lowerOpen |-> keyRange.lowerOpen,
                                      upperOpen |-> keyRange.upperOpen])
                              ELSE <<>>]
  /\ UNCHANGED <<storeVars, memoVars, arg>>

\* ---- substitutions of term groups (expression.js) -------------------------------
\* A TermGroups holds at most one Term per dependency (<<>> is undefined) and
\* the substitution values of every template parsed so far.  A Term's node
\* lists its $$subs[value] references in source order; `denotes` records the
\* substituted value the template put at that reference.  A Term keeps the
\* substitutions array it was constructed with, and its expression_ caches
\* the source and the array the expression was compiled with.
NoGroup == [terms |-> [d \in Names |-> <<>>], substitutions |-> <<>>]

\* Term.merge: the nodes are joined by &&; the receiver keeps its array.
MergeNode(t, u) == [t EXCEPT !.node = t.node \o u.node, !.expression_ = <<>>]

\* TermGroups.parse of a template whose single term depends on d.
GroupsParse(g, d, substitutions) ==
  LET n == Len(g.substitutions)
      all == g.substitutions \o substitutions
      newTerm == [node |-> [i \in 1..Len(substitutions) |->
                             [value |-> n + i - 1, denotes |-> substitutions[i]]],
                  substitutions |-> all,
                  expression_ |-> <<>>]
  IN  [terms |-> [g.terms EXCEPT ![d] = IF @ = <<>> THEN <<newTerm>>
                                        ELSE <<MergeNode(@[1], newTerm)>>],
       substitutions |-> all]

\* TermGroups.merge: other's substitution nodes, which are the nodes inside
\* other's terms, are shifted in place; a compiled expression is not.
GroupsMerge(this, other) ==
  LET n == Len(this.substitutions)
      Shift(t) == [t EXCEPT !.node = [i \in DOMAIN t.node |->
                                       [t.node[i] EXCEPT !.value = @ + n]]]
  IN  [terms |-> [d \in Names |->
                   IF other.terms[d] = <<>> THEN this.terms[d]
                   ELSE IF this.terms[d] = <<>> THEN <<Shift(other.terms[d][1])>>
                   ELSE <<MergeNode(this.terms[d][1], Shift(other.terms[d][1]))>>],
       substitutions |-> this.substitutions \o other.substitutions]

\* Term.expression: compileNode binds $$subs to the term's own array.
TermExpression(t) ==
  IF t.expression_ # <<>> THEN t
  ELSE [t EXCEPT !.expression_ =
          <<[source |-> [i \in DOMAIN t.node |-> t.node[i].value],
             array |-> t.substitutions]>>]

\* The values the compiled expression of t reads at its references, in order;
\* an index past the end of a JavaScript array reads undefined.
Reads(t) ==
  LET e == TermExpression(t).expression_[1]
  IN  [i \in DOMAIN e.source |->
        IF e.source[i] + 1 \in DOMAIN e.array THEN e.array[e.source[i] + 1] ELSE Undef]

ParseGroup(which, d, substitutions) ==
  /\ res.stage = "groups"
  /\ Len(res.this.substitutions) + Len(res.other.substitutions)
       + Len(substitutions) <= MaxSubs
  /\ \/ /\ which = "this"
        /\ res' = [res EXCEPT !.this = GroupsParse(@, d, substitutions)]
     \/ /\ which = "other" /\ ~res.merged
        /\ res' = [res EXCEPT !.other = GroupsParse(@, d, substitutions)]
  /\ UNCHANGED <<storeVars, memoVars, arg>>

MergeGroups ==
  /\ res.stage = "groups" /\ ~res.merged
  /\ res' = [res EXCEPT !.this = GroupsMerge(res.this, res.other),
                        !.other = NoGroup, !.merged = TRUE]
  /\ UNCHANGED <<storeVars, memoVars, arg>>

CompileTerm(which, d) ==
  /\ res.stage = "groups"
  /\ \/ /\ which = "this" /\ res.this.terms[d] # <<>>
        /\ res.this.terms[d][1].expression_ = <<>>
        /\ res' = [res EXCEPT !.this.terms[d] = <<TermExpression(@[1])>>]
     \/ /\ which = "other" /\ res.other.terms[d] # <<>>
        /\ res.other.terms[d][1].expression_ = <<>>
        /\ res' = [res EXCEPT !.other.terms[d] = <<TermExpression(@[1])>>]
  /\ UNCHANGED <<storeVars, memoVars, arg>>

\* ---- the query builder (querybuilder.js) ------------------------------------------
\* The nodes a builder has constructed are kept in a heap, so that the builder's
\* mode and the finalized tree share them as the objects do: a node's relation
\* is the heap index of its child (0 for none), an OrderBy's ordering lists its
\* entries, a Join's terms counts the predicates parsed into its termGroups and
\* merged tells that TermGroups.merge has emptied them.  The CompositeUnion of
\* fullJoin stands with its outer and its anti Join, which share the build
\* relation: relation is outerJoin.lRelation.  childName is the property of the
\* node that holds relation: the build relation is the lRelation of a Join but
\* the rRelation of the Join of rightJoin.  The predicate of where() names the
\* relation of from(), the predicate of on() the relation joined.
DefaultMode == [joinRelations |-> 0, orderBy |-> 0, finalized |-> FALSE]

NewNode(class, relation) ==
  [class |-> class, relation |-> relation, ordering |-> <<>>, terms |-> 0,
   merged |-> FALSE,
   childName |-> IF class \in {"Join", "CompositeUnion", "SetOperation"}
                 THEN "lRelation" ELSE "relation"]

\* select(selector).from(relationMap) of a new query.
NewQuery(command) ==
  [stage |-> "builder", command |-> command,
   heap |-> <<NewNode("NamedRelation", 0)>>,
   buildRelation |-> 1, queryRelation |-> 0, mode |-> DefaultMode,
   selector |-> TRUE, into |-> FALSE, returning |-> FALSE, memoize |-> FALSE,
   call |-> "from", thrown |-> FALSE]

Throw(b, call) == [b EXCEPT !.call = call, !.thrown = TRUE]

\* A chain that lets a finalized query be modified.
ChainNeverThrows(mode) == FALSE

ChainThrows(mode) == mode.finalized

Chain(b, call, heap, newRelation, newMode) ==
  IF ChainThrows(b.mode) THEN Throw(b, call)
  ELSE [b EXCEPT !.heap = heap, !.buildRelation = newRelation, !.queryRelation = 0,
                 !.mode = newMode, !.call = call, !.thrown = FALSE]

\* query.relation(): the cached queryRelation, or the build relation under its
\* Select and Memoize or Write; it throws for a write command without into().
Relation(b) ==
  IF b.queryRelation # 0 THEN [b EXCEPT !.thrown = FALSE]
  ELSE LET heap1 == IF b.selector
                    THEN Append(b.heap, NewNode("Select", b.buildRelation))
                    ELSE b.heap
           top1 == IF b.selector THEN Len(heap1) ELSE b.buildRelation
           b1 == [b EXCEPT !.heap = heap1, !.queryRelation = top1,
                           !.selector = FALSE, !.thrown = FALSE]
       IN  IF b.command = "select"
           THEN IF b.memoize
                THEN [b1 EXCEPT !.heap = Append(heap1, NewNode("Memoize", top1)),
                                !.queryRelation = Len(heap1) + 1]
                ELSE b1
           ELSE IF ~b.into THEN [b1 EXCEPT !.thrown = TRUE]
           ELSE [b1 EXCEPT !.heap = Append(heap1, NewNode("Write", top1)),
                           !.queryRelation = Len(heap1) + 1]

RECURSIVE SchemaDefined(_, _)
\* node.schema() !== undefined for the node i: a NamedRelation and a Join have
\* a schema, a Where, an OrderBy and a Memoize that of their relation, and
\* every other node inherits Relation.schema, which returns undefined.
SchemaDefined(heap, i) ==
  CASE heap[i].class \in {"NamedRelation", "Join"} -> TRUE
    [] heap[i].class = "CompositeUnion" -> TRUE
    [] heap[i].class \in {"Where", "OrderBy", "Memoize"} ->
         SchemaDefined(heap, heap[i].relation)
    [] OTHER -> FALSE

\* traverse with the visitor of hoistPredicates, from node i down.  On entry
\* a Where that has a schema and a Join have their termGroups merged into the
\* available terms, which throws TypeError when an earlier merge has emptied
\* them; an OrderBy whose child is an OrderBy takes the child's entries before
\* its own and skips the child.  Then the child is traversed; a CompositeUnion
\* traverses it a second time, below its anti Join.  On exit a Where that has
\* a schema is replaced by its relation.  The result is the node now at this
\* place, whether the traversal threw, and whether a term is left available.
\* The `on` terms of a fullJoin name the NamedRelation of its outer Join, which
\* its anti Join does not hold, so the anti Join's terms are left; named tells
\* that the schema of this node holds that NamedRelation.  A Join with the
\* node as its lRelation then adds it to the schema available at its right
\* NamedRelation (getAvailableSchema), whose exit takes the terms left.
RECURSIVE Visit(_, _)
Visit(heap, i) ==
  LET n == heap[i]
      merges == \/ n.class \in {"Join", "CompositeUnion"}
                \/ n.class = "Where" /\ SchemaDefined(heap, i)
      fuse == n.class = "OrderBy" /\ heap[n.relation].class = "OrderBy"
      entered == IF fuse
                 THEN [heap EXCEPT ![i].ordering = heap[n.relation].ordering \o n.ordering,
                                   ![i].relation = heap[n.relation].relation]
                 ELSE IF merges THEN [heap EXCEPT ![i].merged = TRUE]
                 ELSE heap
      child == entered[i].relation
      none == [heap |-> entered, node |-> 0, thrown |-> FALSE, left |-> FALSE,
               named |-> FALSE]
      below == IF child = 0 THEN none ELSE Visit(entered, child)
      accepted == [below.heap EXCEPT ![i].relation = below.node]
      again == IF n.class = "CompositeUnion" /\ ~below.thrown
               THEN Visit(accepted, child)
               ELSE [none EXCEPT !.heap = accepted, !.thrown = below.thrown]
      own == n.class = "CompositeUnion" /\ n.terms > 0
      taken == n.class = "Join" /\ n.childName = "lRelation" /\ below.named
      left == own \/ (below.left /\ ~taken)
      named == /\ own \/ below.named
               /\ n.class \in {"Where", "OrderBy", "Memoize", "Join", "CompositeUnion"}
               /\ ~taken
      result == [heap |-> again.heap, node |-> i, thrown |-> FALSE, left |-> left,
                 named |-> named]
  IN  IF merges /\ n.merged THEN [none EXCEPT !.heap = heap, !.node = i, !.thrown = TRUE]
      ELSE IF again.thrown THEN [result EXCEPT !.thrown = TRUE]
      ELSE IF n.class = "Where" /\ SchemaDefined(again.heap, i)
      THEN [result EXCEPT !.node = again.heap[i].relation]
      ELSE result

\* The tree below node i: each node without its heap index.
RECURSIVE TreeOf(_, _)
TreeOf(heap, i) ==
  IF i = 0 THEN <<>>
  ELSE <<[class |-> heap[i].class, ordering |-> heap[i].ordering,
          terms |-> heap[i].terms, merged |-> heap[i].merged]>>
         \o TreeOf(heap, heap[i].relation)

\* finalize(): hoistPredicates throws TypeError out of the traversal, or
\* "Some terms were not assigned to nodes" after it; the query then is not
\* finalized, queryRelation stays what relation() cached and the tree stays
\* as the traversal left it.
CallFinalize ==
  /\ res.stage = "builder"
  /\ Len(res.heap) <= MaxNodes \/ res.mode.finalized
  /\ res' = IF res.mode.finalized THEN [res EXCEPT !.call = "finalize", !.thrown = FALSE]
            ELSE LET r == Relation(res)
                     f == Visit(r.heap, r.queryRelation)
                 IN  IF r.thrown THEN Throw(r, "finalize")
                     ELSE IF f.thrown \/ f.left
                     THEN Throw([r EXCEPT !.heap = f.heap], "finalize")
                     ELSE [r EXCEPT !.heap = f.heap, !.queryRelation = f.node,
                                    !.mode.finalized = TRUE, !.call = "finalize"]
  /\ UNCHANGED <<storeVars, memoVars, arg>>

\* relation() and tree(): relation() caches queryRelation; tree() walks it, and
\* Join.tree() and Where.tree() throw TypeError on termGroups a merge has emptied.
CallRelation(call) ==
  /\ res.stage = "builder"
  /\ Len(res.heap) <= MaxNodes \/ res.queryRelation # 0
  /\ LET r == Relation(res)
         tree == TreeOf(r.heap, r.queryRelation)
     IN  res' = IF r.thrown THEN Throw(r, call)
                ELSE [r EXCEPT !.call = call,
                               !.thrown = /\ call = "tree"
                                          /\ \E k \in DOMAIN tree : tree[k].merged]
  /\ UNCHANGED <<storeVars, memoVars, arg>>

\* from(relationMap): the build relation is replaced by a new NamedRelation.
CallFrom ==
  /\ res.stage = "builder"
  /\ Len(res.heap) < MaxNodes \/ res.mode.finalized
  /\ res' = Chain(res, "from", Append(res.heap, NewNode("NamedRelation", 0)),
                  Len(res.heap) + 1, DefaultMode)
  /\ UNCHANGED <<storeVars, memoVars, arg>>

CallSelect ==
  /\ res.stage = "builder"
  /\ res' = IF res.selector THEN Throw(res, "select")
            ELSE Chain([res EXCEPT !.selector = TRUE], "select",
                       res.heap, res.buildRelation, DefaultMode)
  /\ UNCHANGED <<storeVars, memoVars, arg>>

CallInto ==
  /\ res.stage = "builder"
  /\ res' = IF res.into THEN Throw(res, "into")
            ELSE Chain([res EXCEPT !.into = TRUE], "into",
                       res.heap, res.buildRelation, DefaultMode)
  /\ UNCHANGED <<storeVars, memoVars, arg>>

CallReturning ==
  /\ res.stage = "builder"
  /\ res' = IF res.returning THEN Throw(res, "returning")
            ELSE Chain([res EXCEPT !.returning = TRUE], "returning",
                       res.heap, res.buildRelation, DefaultMode)
  /\ UNCHANGED <<storeVars, memoVars, arg>>

\* union and unionAll.
CallUnion(call) ==
  /\ res.stage = "builder"
  /\ Len(res.heap) + 2 <= MaxNodes \/ res.mode.finalized
  /\ LET r == Relation(res)
     IN  res' = IF r.thrown THEN Throw(r, call)
                ELSE Chain(r, call, Append(r.heap, NewNode("SetOperation", r.queryRelation)),
                           Len(r.heap) + 1, DefaultMode)
  /\ UNCHANGED <<storeVars, memoVars, arg>>

\* join, antiJoin, leftJoin, rightJoin and fullJoin. The Join constructor
\* looks each name of its left schema up in its right schema: with the build
\* relation on the right (rightJoin, and the anti join of fullJoin) a build
\* relation without schema makes it throw TypeError before chain is called.
CallJoin(call) ==
  /\ res.stage = "builder"
  /\ Len(res.heap) < MaxNodes \/ res.mode.finalized
  /\ res' = IF call \in {"rightJoin", "fullJoin"}
               /\ ~SchemaDefined(res.heap, res.buildRelation)
            THEN Throw(res, call)
            ELSE Chain(res, call,
                       Append(res.heap,
                              [NewNode(IF call = "fullJoin" THEN "CompositeUnion" ELSE "Join",
                                       res.buildRelation)
                                 EXCEPT !.childName = IF call = "rightJoin" THEN "rRelation"
                                                      ELSE "lRelation"]),
                       Len(res.heap) + 1,
                       [DefaultMode EXCEPT !.joinRelations = Len(res.heap) + 1])
  /\ UNCHANGED <<storeVars, memoVars, arg>>

\* on: a join must be the current mode, and parse throws TypeError on the
\* termGroups of a Join that hoistPredicates has merged into the available terms.
CallOn ==
  /\ res.stage = "builder"
  /\ LET j == res.mode.joinRelations
     IN  /\ j # 0 => res.heap[j].terms < MaxTerms \/ res.mode.finalized
         /\ res' = IF j = 0 \/ res.heap[j].merged THEN Throw(res, "on")
                   ELSE Chain(res, "on", [res.heap EXCEPT ![j].terms = @ + 1],
                              res.buildRelation, [DefaultMode EXCEPT !.joinRelations = j])
  /\ UNCHANGED <<storeVars, memoVars, arg>>

CallWhere ==
  /\ res.stage = "builder"
  /\ Len(res.heap) < MaxNodes \/ res.mode.finalized
  /\ res' = Chain(res, "where",
                  Append(res.heap, [NewNode("Where", res.buildRelation) EXCEPT !.terms = 1]),
                  Len(res.heap) + 1, DefaultMode)
  /\ UNCHANGED <<storeVars, memoVars, arg>>

CallGroupBy ==
  /\ res.stage = "builder"
  /\ Len(res.heap) < MaxNodes \/ res.mode.finalized
  /\ res' = IF ~res.selector THEN Throw(res, "groupBy")
            ELSE LET c == Chain(res, "groupBy",
                                Append(res.heap, NewNode("GroupBy", res.buildRelation)),
                                Len(res.heap) + 1, DefaultMode)
                 IN  IF c.thrown THEN c ELSE [c EXCEPT !.selector = FALSE]
  /\ UNCHANGED <<storeVars, memoVars, arg>>

\* orderBy: the entry's expression is named by the node that introduced it.
CallOrderBy ==
  /\ res.stage = "builder"
  /\ Len(res.heap) < MaxNodes \/ res.mode.finalized
  /\ LET o == Len(res.heap) + 1
         orderBy == [NewNode("OrderBy", res.buildRelation) EXCEPT
                       !.ordering = <<[expression |-> o, order |-> 1, nulls |-> 1]>>]
     IN  res' = Chain(res, "orderBy", Append(res.heap, orderBy), o,
                      [DefaultMode EXCEPT !.orderBy = o])
  /\ UNCHANGED <<storeVars, memoVars, arg>>

\* asc, desc and order(order): the last entry is assigned before chain is called.
CallOrder(order) ==
  /\ res.stage = "builder"
  /\ LET o == res.mode.orderBy
     IN  res' = IF o = 0 THEN Throw(res, "order")
                ELSE LET heap == [res.heap EXCEPT
                                    ![o].ordering[Len(res.heap[o].ordering)].order = order]
                     IN  Chain([res EXCEPT !.heap = heap], "order", heap,
                               res.buildRelation, [DefaultMode EXCEPT !.orderBy = o])
  /\ UNCHANGED <<storeVars, memoVars, arg>>

\* nullsFirst, nullsLast and nulls(nulls).
CallNulls(nulls) ==
  /\ res.stage = "builder"
  /\ LET o == res.mode.orderBy
     IN  res' = IF o = 0 THEN Throw(res, "nulls")
                ELSE LET heap == [res.heap EXCEPT
                                    ![o].ordering[Len(res.heap[o].ordering)].nulls = nulls]
                     IN  Chain([res EXCEPT !.heap = heap], "nulls", heap,
                               res.buildRelation, [DefaultMode EXCEPT !.orderBy = o])
  /\ UNCHANGED <<storeVars, memoVars, arg>>

CallMemoize ==
  /\ res.stage = "builder"
  /\ res' = Chain([res EXCEPT !.memoize = TRUE], "memoize",
                  res.heap, res.buildRelation, DefaultMode)
  /\ UNCHANGED <<storeVars, memoVars, arg>>

\* ---- a join over cursors (tree.js, indexeddb.js) -----------------------------------
\* arg.rights[k] is the number of records the right store holds for the k-th
\* left tuple.  The store's transaction serves its cursor requests in the order
\* they were placed: res.queue holds them, source 0 being the cursor of the
\* left store and source k the right cursor opened for the k-th left tuple.
\* res.out lists the tuples emitted: left k with right j, j = 0 being the
\* generated tuple of an outer join.

\* mergeMap's projection: the right side is subscribed to at once, which
\* opens a cursor.
MergeMapNext(queue, k) == Append(queue, [source |-> k, next |-> 1])

\* Join.execute is subscribed to: a left store is read through a cursor, a
\* left relation in memory hands all its tuples over in the subscribing call.
SubscribeJoin ==
  /\ res.stage = "none"
  /\ res' = [stage |-> "join", out |-> <<>>,
             queue |-> IF arg.cursor THEN <<[source |-> 0, next |-> 1]>>
                       ELSE [k \in 1..Len(arg.rights) |-> [source |-> k, next |-> 1]]]
  /\ UNCHANGED <<storeVars, memoVars, arg>>

\* request.onsuccess of rangeStream for the request at the head of the queue:
\* with a record the cursor is continued, which places a new request, and the
\* record is passed on; without one the stream completes.
OnSuccess ==
  /\ res.stage = "join" /\ res.queue # <<>>
  /\ LET request == Head(res.queue)
         k == request.source
         rest == Tail(res.queue)
         continued == Append(rest, [request EXCEPT !.next = @ + 1])
     IN  res' =
           IF k = 0
           THEN IF request.next <= Len(arg.rights)
                THEN [res EXCEPT !.queue = MergeMapNext(continued, request.next)]
                ELSE [res EXCEPT !.queue = rest]
           ELSE IF request.next <= arg.rights[k]
                THEN [res EXCEPT !.queue = continued,
                                 !.out = Append(@, [left |-> k, right |-> request.next])]
                ELSE [res EXCEPT !.queue = rest,
                                 !.out = IF arg.type = "outer" /\ arg.rights[k] = 0
                                         THEN Append(@, [left |-> k, right |-> 0])
                                         ELSE @]
  /\ UNCHANGED <<storeVars, memoVars, arg>>

\* ---- orderings (tree.js, querybuilder.js) ------------------------------------------
RECURSIVE OrderCompare(_, _, _)
\* The comparator OrderBy.execute sorts with, on the values a and b give to the
\* expressions of the entries: the first entry that tells the tuples apart
\* decides.  An undefined value before a defined one throws the ReferenceError
\* of the stray identifier nn.
OrderCompare(ordering, a, b) ==
  IF ordering = <<>> THEN [threw |-> FALSE, c |-> 0]
  ELSE LET o == Head(ordering)
           aa == a[o.expression]
           bb == b[o.expression]
           c == Cmp(aa, bb)
       IN  IF aa = Undef
           THEN IF bb # Undef THEN [threw |-> TRUE, c |-> 0]
                ELSE OrderCompare(Tail(ordering), a, b)
           ELSE IF bb = Undef THEN [threw |-> FALSE, c |-> -o.nulls]
           ELSE IF c # 0 THEN [threw |-> FALSE, c |-> c * o.order]
           ELSE OrderCompare(Tail(ordering), a, b)

\* hoistPredicates on the nodes arg.chain lists from the relation upwards.
HoistOrder ==
  /\ res.stage = "none"
  /\ LET heap == <<NewNode("NamedRelation", 0)>> \o
                 [k \in 1..Len(arg.chain) |->
                    IF arg.chain[k].class = "OrderBy"
                    THEN [NewNode("OrderBy", k) EXCEPT
                            !.ordering = <<[expression |-> k + 1,
                                            order |-> arg.chain[k].order,
                                            nulls |-> arg.chain[k].nulls]>>]
                    ELSE [NewNode("Where", k) EXCEPT !.terms = 1]]
         f == Visit(heap, Len(heap))
     IN  res' = [stage |-> "hoisted", built |-> heap, heap |-> f.heap, root |-> f.node]
  /\ UNCHANGED <<storeVars, memoVars, arg>>

\* The sort of the finalized root, when it is an OrderBy, compares a with b.
CompareTuples(a, b) ==
  /\ res.stage = "hoisted"
  /\ res.heap[res.root].class = "OrderBy"
  /\ res' = [stage |-> "compared", built |-> res.built, heap |-> res.heap,
             root |-> res.root, a |-> a, b |-> b,
             c |-> OrderCompare(res.heap[res.root].ordering, a, b)]
  /\ UNCHANGED <<storeVars, memoVars, arg>>

\* ---- specifications -------------------------------------------------------------
\* The lifecycle of transactions: calls, timers and store events.
NextTxn ==
  \/ \E t \in Txns : Complete(t)
  \/ \E t \in Txns : Abort(t)
  \/ \E t \in Txns : Delay(t)
  \/ FirstTick
  \/ SecondTick
  \/ \E t \in Txns : IdbCompleteEvent(t)
  \/ \E t \in Txns : IdbAbortEvent(t)

SpecTxn == Init /\ [][NextTxn]_vars

\* An in-memory transaction left alone: only delayComplete() and the timers.
NextIdle ==
  \/ \E t \in Txns : Delay(t)
  \/ FirstTick
  \/ SecondTick

FairIdle == Init /\ [][NextIdle]_vars /\ WF_vars(FirstTick) /\ WF_vars(SecondTick)

\* Views and direct store calls under explicit settlement.
NextOverlay ==
  \/ \E t \in Txns : Complete(t)
  \/ \E t \in Txns : Abort(t)
  \/ \E t \in Txns, o \in Objects : View(t, o)
  \/ \E id \in 1..Len(views), k \in Keys, v \in Values \cup {Undef} : Assign(id, k, v)
  \/ \E t \in Txns, o \in Objects, tuple \in Tuples, overwrite \in BOOLEAN :
       Put(t, o, <<tuple>>, overwrite)
  \/ \E t \in Txns, o \in Objects, tuple \in Tuples : Delete(t, o, <<tuple>>)

\* Both transactions are in-memory ones, as made by TransactionNode without db.
InitOverlay == Init /\ \A t \in Txns : kind[t] = "memory"

SpecOverlay == InitOverlay /\ [][NextOverlay]_vars

\* Query executions through the envelope, with every way the ambient
\* transaction can settle meanwhile.
\* The context's ambient transaction is T1, of any class; T2 stays aside.
Ambient == 1

NextQuery ==
  \/ Complete(Ambient)
  \/ Abort(Ambient)
  \/ \E o \in Objects, mode \in {"insert", "upsert", "delete"},
        sel \in {"same", "rename", "set", "throw", "values"}, val \in Values :
       Execute(Ambient, o, mode, sel, val)
  \/ Subscribe
  \/ ReadNext
  \/ Flush
  \/ FirstTick
  \/ SecondTick
  \/ IdbCompleteEvent(Ambient)
  \/ IdbAbortEvent(Ambient)

InitQuery == Init /\ \A t \in Txns \ {Ambient} : kind[t] = "base"

SpecQuery == InitQuery /\ [][NextQuery]_vars

\* Inserts and upserts of the tuples of another relation into one store, the
\* JSONObjectStore or the PersistentObjectStore, inside the ambient transaction.
NextPut ==
  \/ Complete(Ambient)
  \/ Abort(Ambient)
  \/ \E mode \in {"insert", "upsert"} : Execute(Ambient, 1, mode, "values", 1)
  \/ Subscribe
  \/ arg.store = "json" /\ Flush
  \/ arg.store = "persistent" /\ PersistentPut
  \/ RequestEvent
  \/ FirstTick
  \/ SecondTick
  \/ StoreCommit(Ambient)
  \/ RequestError(Ambient)
  \/ StoreAbort(Ambient)

InitPut ==
  /\ InitStore /\ \A t \in Txns \ {Ambient} : kind[t] = "base"
  /\ InitMemo
  /\ \E store \in {"json", "persistent"} : arg = [store |-> store]
  /\ arg.store = "persistent" => kind[Ambient] = "persistent"
  /\ res = [committed |-> InitialRecords, working |-> InitialRecords, requests |-> <<>>,
            tuples |-> <<>>, before |-> InitialRecords]

SpecPut == InitPut /\ [][NextPut]_vars

\* One or more query executions over a tree with one Memoize node.
NextMemo ==
  \/ \E c \in Contexts : NewContext(c)
  \/ \E c, d \in Contexts : CopyContext(c, d)
  \/ \E c \in Contexts : ExecuteMemoize(c)
  \/ \E i \in Consumers : SubscribeMemo(i)
  \/ \E s \in Consumers, tuple \in Tuples : ChildNext(s, tuple)
  \/ \E s \in Consumers : ChildComplete(s)

InitMemoize == Init /\ \A t \in Txns : kind[t] = "base"

SpecMemo == InitMemoize /\ [][NextMemo]_vars

\* A query is built, finalized and executed over two in-memory stores.
NextPlan ==
  \/ Finalize
  \/ \E st \in Stores : Run(st)

InitPlan ==
  /\ InitStore /\ \A t \in Txns : kind[t] = "base"
  /\ InitMemo
  /\ arg \in {[tree |-> tree] : tree \in Trees}
  /\ res = [stage |-> "none"]

SpecPlan == InitPlan /\ [][NextPlan]_vars

\* Key ranges are nested and prepared.
NextRange ==
  \/ \E r \in Ranges : PrepareRange(r)
  \/ \E other \in Operands, swap \in BOOLEAN : PrepareUnion(other, swap)
  \/ \E other \in Operands, swap \in BOOLEAN : PrepareIntersection(other, swap)

InitRange ==
  /\ InitStore /\ \A t \in Txns : kind[t] = "base"
  /\ InitMemo
  /\ arg = [op |-> "none", left |-> <<>>, right |-> <<>>, depth |-> 0, equality |-> "false"]
  /\ res = [stage |-> "none", out |-> <<>>]

SpecRange == InitRange /\ [][NextRange]_vars

\* An index is chosen for a store with up to MaxIndexes secondary indexes and
\* key ranges on some of the paths (none, an equality, or another range); the
\* key ranges can also be undefined.
NextIndex == ChooseIndex

InitIndex ==
  /\ InitStore /\ \A t \in Txns : kind[t] = "base"
  /\ InitMemo
  /\ \E keyPaths \in KeyPaths, indexes \in UNION {[1..n -> Indexes] : n \in 0..MaxIndexes},
        at \in [Paths -> {"none", "equality", "range"}], defined \in BOOLEAN :
       /\ ~defined => \A p \in Paths : at[p] = "none"
       /\ arg = [store |-> [keyPaths |-> keyPaths, indexes |-> indexes],
                 keyRanges |-> [defined |-> defined, at |-> at]]
  /\ res = [stage |-> "none"]

SpecIndex == InitIndex /\ [][NextIndex]_vars

\* One scan of a composite index: up to MaxEquals equalities, then a range that
\* Range.prepare lets through.  The index starts with a record for every key;
\* up to MaxRequests other requests of the transaction write or remove records
\* with the prefix of the scan while the cursor is open.
NextScan ==
  \/ Scan
  \/ ScanSubscribe
  \/ CursorSuccess
  \/ \E k \in Probes, method \in {"put", "delete"} :
       StoreRequest(Append(arg.equals, k), method)

InitScan ==
  /\ InitStore /\ \A t \in Txns : kind[t] = "base"
  /\ InitMemo
  /\ \E equals \in UNION {[1..n -> Points] : n \in 0..MaxEquals},
        range \in {r \in Ranges : RangePrepare(r) # <<>>} :
       /\ arg = [equals |-> equals, range |-> range]
       /\ res = [stage |-> "none", range |-> <<>>, visited |-> <<>>, requests |-> <<>>,
                 records |-> [1..Len(equals) + 1 -> Probes]]

SpecScan == InitScan /\ [][NextScan]_vars

\* The key range of one comparison, k op e (i = 0) or e op k (i = 1), as it
\* stands or under a negation.
NextKeys == Extract

InitKeys ==
  /\ InitStore /\ \A t \in Txns : kind[t] = "base"
  /\ InitMemo
  /\ \E op \in {"===", ">=", ">", "<=", "<"}, i \in {0, 1}, complement \in BOOLEAN,
        e \in Probes, form \in {"literal", "substitution"} :
       arg = [op |-> op, i |-> i, complement |-> complement, e |-> e, form |-> form]
  /\ res = [stage |-> "none"]

SpecKeys == InitKeys /\ [][NextKeys]_vars

\* Term groups built by parse and merge, with substitutions.
NextSubs ==
  \/ \E which \in {"this", "other"}, d \in Names,
        substitutions \in UNION {[1..n -> Values] : n \in 0..MaxSubs} :
       ParseGroup(which, d, substitutions)
  \/ MergeGroups
  \/ \E which \in {"this", "other"}, d \in Names : CompileTerm(which, d)

InitSubs ==
  /\ InitStore /\ \A t \in Txns : kind[t] = "base"
  /\ InitMemo
  /\ arg = [template |-> "subs"]
  /\ res = [stage |-> "groups", this |-> NoGroup, other |-> NoGroup, merged |-> FALSE]

SpecSubs == InitSubs /\ [][NextSubs]_vars

\* A query under construction and after finalize().
NextBuild ==
  \/ CallFinalize \/ CallSelect \/ CallInto \/ CallReturning \/ CallFrom
  \/ \E call \in {"relation", "tree"} : CallRelation(call)
  \/ \E call \in {"union", "unionAll"} : CallUnion(call)
  \/ \E call \in {"join", "antiJoin", "leftJoin", "rightJoin", "fullJoin"} : CallJoin(call)
  \/ CallOn \/ CallWhere \/ CallGroupBy \/ CallOrderBy
  \/ \E order \in {1, -1} : CallOrder(order)
  \/ \E nulls \in {1, -1} : CallNulls(nulls)
  \/ CallMemoize

InitBuild ==
  /\ InitStore /\ \A t \in Txns : kind[t] = "base"
  /\ InitMemo
  /\ \E command \in {"select", "insert"} :
       /\ arg = [command |-> command]
       /\ res = NewQuery(command)

SpecBuild == InitBuild /\ [][NextBuild]_vars

\* A join whose right side is a cursor of a persistent store.
NextJoin == SubscribeJoin \/ OnSuccess

InitJoin ==
  /\ InitStore /\ \A t \in Txns : kind[t] = "base"
  /\ InitMemo
  /\ \E rights \in UNION {[1..n -> 0..MaxRows] : n \in 0..MaxRows},
        type \in {"inner", "outer"}, cursor \in BOOLEAN :
       arg = [rights |-> rights, type |-> type, cursor |-> cursor]
  /\ res = [stage |-> "none"]

SpecJoin == InitJoin /\ [][NextJoin]_vars

\* Chains of orderBy and where calls are finalized and the root's sort compares
\* two tuples, given as the values of the orderings' expressions.
NextOrder ==
  \/ HoistOrder
  \/ \E a, b \in [2..Len(res.built) -> {Undef} \cup Values] : CompareTuples(a, b)

InitOrder ==
  /\ InitStore /\ \A t \in Txns : kind[t] = "base"
  /\ InitMemo
  /\ \E chain \in UNION {[1..n -> [class : {"OrderBy", "Where"}, order : {1, -1},
                                   nulls : {1, -1}]] : n \in 0..MaxChain} :
       /\ \A k \in DOMAIN chain : chain[k].class = "Where" =>
                                    chain[k].order = 1 /\ chain[k].nulls = 1
       /\ arg = [chain |-> chain]
  /\ res = [stage |-> "none", built |-> <<>>]

SpecOrder == InitOrder /\ [][NextOrder]_vars

Next ==
  \/ NextTxn \/ NextOverlay \/ NextQuery \/ NextMemo \/ NextPlan \/ NextRange \/ NextIndex
  \/ NextScan \/ NextKeys \/ NextSubs \/ NextBuild \/ NextJoin \/ NextOrder \/ NextPut

Spec == Init /\ [][Next]_vars

\* ---- properties ------------------------------------------------------------------
ViewOf(t, o) == viewMap[t][o]

\* C1: the first complete or abort settles a transaction and emits exactly one
\* event; after that, complete() and abort() change nothing: settled stays true,
\* no event is emitted and the store transaction is not called again.
C1_SettleOnce ==
  [][\A t \in Txns :
       /\ (~settled[t] /\ settled'[t]) => Len(emitted'[t]) = 1
       /\ settled[t] => /\ settled'[t]
                        /\ emitted'[t] = emitted[t]
                        /\ idbAbortCalls'[t] = idbAbortCalls[t]]_vars

\* C2: in an unsettled transaction, the value last written to a property through
\* the transaction's view (put, delete or assignment) is what a read through
\* that transaction's view returns, and writing leaves the underlying object
\* as it was.
C2_WriteVisible ==
  /\ [](\A t \in Txns, o \in Objects, k \in Keys :
          (~settled[t] /\ written[t][o][k] # Absent)
            => (ViewOf(t, o) # 0 /\ ReadView(ViewOf(t, o), k) = written[t][o][k]))
  /\ [][written' # written => object' = object]_vars

C2_Witness ==
  \E t \in Txns, o \in Objects :
    /\ ~settled[t]
    /\ written[t][o][1] = Undef
    /\ written[t][o][2] \in Values
    /\ object[o][1] \in Values
    /\ object[o][2] # written[t][o][2]

\* C3: when a transaction completes, every own property of each of its views is
\* copied to the underlying object, an explicit undefined deletes the property,
\* and a property the view does not own keeps its value.
C3_CommitOnComplete ==
  [][\A t \in Txns :
       (~settled[t] /\ settled'[t] /\ emitted'[t] = <<"complete">>)
         => \A o \in Objects : ViewOf(t, o) # 0 =>
              \A k \in Keys :
                LET w == views[ViewOf(t, o)].own[k]
                IN  object'[o][k] = IF w = Absent THEN object[o][k]
                                    ELSE IF w = Undef THEN Absent
                                    ELSE w]_vars

C3_Witness ==
  \E t \in Txns, i \in 1..Len(views) :
    /\ emitted[t] = <<"complete">>
    /\ helper[t] = "dead"
    /\ views[i].txn = t
    /\ views[i].own[1] = Undef
    /\ views[i].own[2] \in Values
    /\ object[views[i].object][1] = Absent
    /\ object[views[i].object][2] = views[i].own[2]

\* C4: an underlying object changes only in the step in which an unsettled
\* transaction completes: nothing is written back by a settled transaction,
\* after an abort or after a first complete, whatever is written to views later.
C4_NoLateWriteBack ==
  [][object' # object
       => \E t \in Txns : ~settled[t] /\ settled'[t] /\ emitted'[t] = <<"complete">>]_vars

C4_Witness ==
  \E t \in Txns, i \in 1..Len(views) :
    /\ emitted[t] = <<"abort">>
    /\ helper[t] = "live"
    /\ views[i].txn = t
    /\ views[i].own[2] \in Values
    /\ object[views[i].object][2] = Absent

\* C5: each transaction has one view per object, its own; what a transaction
\* reads through its view is its own last write or else the underlying value,
\* never the uncommitted write of another transaction.
C5_Isolation ==
  /\ \A t \in Txns, o \in Objects :
       ViewOf(t, o) # 0 => (views[ViewOf(t, o)].txn = t /\ views[ViewOf(t, o)].object = o)
  /\ \A i, j \in 1..Len(views) :
       (views[i].txn = views[j].txn /\ views[i].object = views[j].object) => i = j
  /\ \A t \in Txns, o \in Objects, k \in Keys :
       ViewOf(t, o) # 0 =>
         ReadView(ViewOf(t, o), k) =
           IF written[t][o][k] # Absent THEN written[t][o][k]
           ELSE IF object[o][k] # Absent THEN object[o][k]
           ELSE Undef

C5_Witness ==
  \E o \in Objects, k \in Keys :
    /\ ~settled[1] /\ ~settled[2]
    /\ ViewOf(1, o) # 0 /\ ViewOf(2, o) # 0
    /\ written[1][o][k] \in Values
    /\ written[2][o][k] = Absent
    /\ ReadView(ViewOf(2, o), k) # written[1][o][k]
    /\ ReadView(ViewOf(1, o), k) = written[1][o][k]

\* C6: an in-memory transaction on which only delayComplete() is called (a
\* bounded number of times) eventually emits "complete" and is settled; two
\* deferred callbacks after the last delayComplete() it is settled.
C6_AutoComplete ==
  /\ \A t \in Txns : (kind[t] = "memory") => <>(settled[t] /\ emitted[t] = <<"complete">>)
  /\ [](\A t \in Txns : (kind[t] = "memory" /\ ticksSince[t] >= 2) => settled[t])

C6_Witness ==
  \E t \in Txns :
    /\ kind[t] = "memory"
    /\ delays[t] = MaxDelay
    /\ ticksSince[t] = 2
    /\ emitted[t] = <<"complete">>

\* C7: the deferred callback that completes an in-memory transaction is the
\* one the transaction holds in immediateId, it is the second callback since
\* the most recent delayComplete(), and a transaction never has more than one
\* callback pending.
C7_OnlySecondTick ==
  /\ [][\A t \in Txns :
          (immediates' # immediates /\ ~settled[t] /\ settled'[t])
            => /\ ticksSince'[t] = 2
               /\ Head(immediates).stage = 2
               /\ Head(immediates).id = immediateId[t]]_vars
  /\ [](\A i, j \in 1..Len(immediates) : immediates[i].txn = immediates[j].txn => i = j)

C7_Witness ==
  \E t \in Txns :
    /\ kind[t] = "memory"
    /\ delays[t] >= 1
    /\ settled[t]
    /\ ticksSince[t] = 2
    /\ immediateId[t] = 0

\* C8: executing the envelope when the ambient transaction is settled gives the
\* "already settled" error and executes nothing of the child: no view is taken,
\* no timer is armed, nothing is read or written.
C8_SettledSkips ==
  [][\A o \in Objects, mode \in {"insert", "upsert", "delete"},
        sel \in {"same", "rename", "set", "throw", "values"}, val \in Values :
       (settled[Ambient] /\ Execute(Ambient, o, mode, sel, val))
         => /\ pc' = "failed"
            /\ delivered' = "settled"
            /\ UNCHANGED <<overlayVars, timerVars, txnVars>>]_vars

C8_Witness ==
  /\ pc = "failed"
  /\ delivered = "settled"
  /\ settled[Ambient]
  /\ views = <<>>

\* C9: once the child's stream has emitted an error, the error the envelope
\* delivers to the consumer is that same error.
C9_SameErrorDelivered ==
  (pc = "failed" /\ raised # "none") => delivered = raised

\* When the child's stream emits an error while the ambient transaction is
\* unsettled, the transaction is settled as aborted with that error and the
\* consumer receives it.
AbortOnError ==
  [][(pc = "reading" /\ raised' # "none" /\ ~settled[qtxn])
       => /\ delivered' = raised'
          /\ settled'[qtxn]
          /\ emitted'[qtxn] = <<"abort">>
          /\ promise'[qtxn] = [state |-> "rejected", error |-> raised']
          /\ kind[qtxn] = "persistent" => idbState'[qtxn] = "aborting"]_vars

\* A transaction that had settled before the child's stream failed keeps its
\* settlement: a completed transaction stays completed.
SettledBeforeError ==
  [][(pc = "reading" /\ raised' # "none" /\ settled[qtxn]) => UNCHANGED txnVars]_vars

\* C10: while the input of a Write still has tuples to produce, the execution
\* changes no view and no object: every put or delete comes after the last
\* input tuple.
C10_WriteAfterInput ==
  [][(pc = "reading" /\ qorder # <<>>)
       => (views' = views /\ object' = object /\ written' = written)]_vars

C10_Witness ==
  /\ pc = "done"
  /\ written[Ambient][1][2] \in Values
  /\ written[Ambient][1][1] = Absent

\* view[k] !== undefined for the view the transaction t has (or would get) of
\* the object o: the primary key k already exists for t.
Exists(t, o, k) ==
  IF viewMap[t][o] # 0 THEN ReadView(viewMap[t][o], k) # Undef
  ELSE object[o][k] # Absent

\* The records the transaction t sees in the JSONObjectStore over the object o.
Visible(t, o) == [k \in Keys |-> IF Exists(t, o, k) THEN 1 ELSE Absent]

\* Some tuple of the batch, at any position, carries a primary key the store
\* holds already.
HeldKey(tuples, records) ==
  \E i \in 1..Len(tuples) : records[tuples[i].k] # Absent

\* Some tuple of the batch carries a primary key that exists when its turn to
\* be written comes: the store held it, or an earlier tuple of the batch has
\* put it there.
Meets(tuples, records) ==
  \E i \in 1..Len(tuples) :
    \/ records[tuples[i].k] # Absent
    \/ \E j \in 1..(i - 1) : tuples[j].k = tuples[i].k

\* One step of an insert whose batch holds a duplicate (json: for the
\* JSONObjectStore, idb: for the PersistentObjectStore). The Write fails with
\* an error, never completing; the JSONObjectStore stages nothing, not even the
\* tuples in front of the duplicate, and the failure settles the transaction;
\* the records committed to the persistent store do not change from the call
\* of put on, nor after the failure; a settled transaction leaves the
\* JSONObjectStore's records as they are.
InsertStep(json, idb) ==
  /\ (arg.store = "json" /\ pc = "reading" /\ qorder = <<>> /\ qmode = "insert" /\ json)
       => /\ pc' = "failed"
          /\ raised' # "none"
          /\ settled'[qtxn]
          /\ object' = object
          /\ \A id \in 1..Len(views') :
               views'[id].own = IF id <= Len(views) THEN views[id].own ELSE NoOwn
  /\ (arg.store = "persistent" /\ pc = "putting" /\ qmode = "insert" /\ idb)
       => pc' # "done"
  /\ (arg.store = "persistent" /\ (pc = "putting" \/ (pc = "failed" /\ raised # "none")))
       => /\ res'.committed = res.committed
          /\ idbState'[qtxn] = "finished" => res'.working = res.committed
  /\ settled[Ambient] => object' = object

\* C11: an insert whose batch meets a primary key that already exists fails
\* with an error, whatever the position of the duplicate in the batch, and none
\* of the tuples of the batch persists: the store keeps the records it held
\* before the Write.
C11_InsertAllOrNothing ==
  [][InsertStep(Meets(buffer, Visible(qtxn, qstore)),
                Meets(res.tuples, res.before))]_vars

\* The same for the batches with a primary key the store held before the
\* Write; the PersistentObjectStore also refuses a key repeated in the batch.
InsertOfHeldKey ==
  [][InsertStep(HeldKey(buffer, Visible(qtxn, qstore)),
                Meets(res.tuples, res.before))]_vars

\* An insert of two tuples into the persistent store failed at the second one,
\* the first was added, and the store transaction rolled both back.
InsertRolledBack ==
  /\ arg.store = "persistent"
  /\ pc = "failed"
  /\ raised = "constraint"
  /\ delivered = "constraint"
  /\ Len(res.tuples) = 2
  /\ res.before[res.tuples[1].k] = Absent
  /\ idbState[qtxn] = "finished"
  /\ res.working = res.before
  /\ res.committed = res.before

\* C12: within one query execution (a context made from params and every
\* context copied from it) the child of the Memoize node is executed once,
\* however often the node is executed or subscribed to, and every consumer
\* receives the tuples of that one execution: all of them once it completes.
C12_MemoizeOnce ==
  /\ \A c \in Contexts :
       Cardinality({s \in 1..Len(streams) : streams[s].root = c})
         = IF \E i \in 1..Len(subs) : ctxRoot[subs[i].ctx] = c THEN 1 ELSE 0
  /\ \A i \in 1..Len(subs) :
       /\ streams[subs[i].stream].root = ctxRoot[subs[i].ctx]
       /\ subs[i].state # "held" => subs[i].got = streams[subs[i].stream].out
       /\ subs[i].state = "complete" => streams[subs[i].stream].closed

\* Three consumers in two contexts of one execution have each received the
\* same two tuples of the single execution of the child.
C12_Witness ==
  /\ Len(subs) = 3
  /\ Len(streams) = 1
  /\ \E i, j \in 1..3 : subs[i].ctx # subs[j].ctx
  /\ \A i \in 1..3 : subs[i].state = "complete" /\ Len(subs[i].got) = 2

\* Equal as multisets.
SameBag(s, t) ==
  \A x \in {s[i] : i \in DOMAIN s} \cup {t[i] : i \in DOMAIN t} :
    Cardinality({i \in DOMAIN s : s[i] = x}) = Cardinality({i \in DOMAIN t : t[i] = x})

RECURSIVE NaiveEach(_, _, _, _)
\* The nested loop of a join: each left tuple against every right tuple, paired
\* where the `on` predicate holds.
NaiveEach(n, lefts, rights, on) ==
  IF lefts = <<>> THEN [err |-> FALSE, out |-> <<>>]
  ELSE LET m == ApplyPredicates(rights, on, Head(lefts))
           rest == NaiveEach(n, Tail(lefts), rights, on)
       IN  IF m.err \/ rest.err THEN [err |-> TRUE, out |-> <<>>]
           ELSE [err |-> FALSE, out |-> JoinOne(n, Head(lefts), m.out) \o rest.out]

RECURSIVE Naive(_, _)
\* The naive nested-loop execution C13 compares a plan with: a Where filters
\* what its child emits by its own terms, a join pairs by its own `on` terms.
Naive(n, st) ==
  CASE n.class = "NamedRelation" -> [err |-> FALSE, out |-> Named(n, st)]
    [] n.class = "Join" ->
         LET l == Naive(n.lRelation, st)
             r == Naive(n.rRelation, st)
             on == [i \in 1..Len(n.termGroups.terms) |-> n.termGroups.terms[i].atoms]
         IN  IF l.err \/ r.err THEN [err |-> TRUE, out |-> <<>>]
             ELSE NaiveEach(n, l.out, r.out, on)
    [] n.class = "Where" ->
         LET c == Naive(n.relation, st)
         IN  IF c.err THEN c
             ELSE ApplyPredicates(c.out,
                    [i \in 1..Len(n.termGroups.terms) |-> n.termGroups.terms[i].atoms],
                    EmptyTuple)
    [] n.class = "CompositeUnion" ->
         LET l == Naive(n.lRelation, st)
             r == Naive(n.rRelation, st)
         IN  IF l.err \/ r.err THEN [err |-> TRUE, out |-> <<>>]
             ELSE [err |-> FALSE, out |-> l.out \o r.out]
    [] OTHER -> Naive(n.relation, st)

\* C13: executing the finalized plan emits the same multiset of tuples as the
\* naive nested-loop execution of the tree as built (an error on one side is an
\* error on the other), also with a Where or an `on` above or on an outer or
\* anti join.
C13_PlanEqualsNaive ==
  res.stage = "ran" =>
    LET naive == Naive(arg.tree, res.stores)
    IN  /\ res.result.err = naive.err
        /\ SameBag(res.result.out, naive.out)

RECURSIVE Held(_)
\* The comparisons of the terms held by the TermGroups of the nodes of a tree.
Held(n) ==
  CASE n.class = "NamedRelation" -> <<>>
    [] n.class = "Join" ->
         Flatten([i \in 1..Len(n.termGroups.terms) |-> n.termGroups.terms[i].atoms])
           \o Held(n.lRelation) \o Held(n.rRelation)
    [] n.class = "CompositeUnion" -> Held(n.lRelation) \o Held(n.rRelation)
    [] n.class = "Where" ->
         Flatten([i \in 1..Len(n.termGroups.terms) |-> n.termGroups.terms[i].atoms]) \o Held(n.relation)
    [] OTHER -> Held(n.relation)

RECURSIVE Attached(_, _)
\* The comparisons in the predicates of the nodes of a tree; a node object that
\* stands at two places (seen) is counted once.
Attached(n, seen) ==
  CASE n.class = "NamedRelation" -> IF n.id \in seen THEN <<>> ELSE Flatten(n.predicates)
    [] n.class = "Join" ->
         Flatten(n.predicates) \o Attached(n.lRelation, seen) \o Attached(n.rRelation, seen)
    [] n.class = "CompositeUnion" ->
         Attached(n.lRelation, seen) \o Attached(n.rRelation, seen \cup {BuildId})
    [] n.class = "Where" -> Flatten(n.predicates) \o Attached(n.relation, seen)
    [] OTHER -> Attached(n.relation, seen)

\* C14: when hoistPredicates returns normally, every term held by a Where's or
\* Join's TermGroups before finalization is in the predicates of exactly one
\* NamedRelation, Join or Where, none dropped and none attached twice; a tree
\* with a term that cannot be attached is not finalized, so never executed.
C14_AttachedOnce ==
  /\ res.stage # "none" /\ ~res.plan.err
       => SameBag(Attached(res.plan.root, {}), Held(arg.tree))
  /\ res.stage # "none" /\ res.plan.err => res.stage = "plan"

\* A Where with two terms above an outer join with an `on`: one term is kept
\* at the join, the others go down to the relations.
C14_Witness ==
  /\ res.stage = "plan" /\ ~res.plan.err
  /\ arg.tree.class = "Where" /\ arg.tree.relation.class = "Join"
  /\ Len(Held(arg.tree)) >= 3
  /\ res.plan.root.class = "Join" /\ res.plan.root.predicates # <<>>
  /\ res.plan.root.rRelation.predicates # <<>>

\* A list of ranges as prepare() promises it: every range non-empty, each one
\* wholly below the next.
NonEmpty(r) == RangePrepare(r) # <<>>

Ordered(ranges) ==
  \A i \in 1..Len(ranges) - 1 :
    /\ CmpLower(ranges[i], ranges[i + 1]) <= 0
    /\ ~\E v \in Probes : RangeIncludes(ranges[i], v) /\ RangeIncludes(ranges[i + 1], v)
    /\ ranges[i].upper # Undef /\ ranges[i + 1].lower # Undef
    /\ ranges[i].upper <= ranges[i + 1].lower

\* C15: whatever the nesting of Range, RangeUnion and RangeIntersection,
\* prepare() returns non-empty ranges that do not overlap, in ascending order
\* of their lower bounds.
C15_PreparedList ==
  res.stage = "prepared" =>
    /\ \A i \in 1..Len(res.out) : NonEmpty(res.out[i])
    /\ Ordered(res.out)

\* C16: a value is included in RangeIntersection(left, right).prepare() iff it
\* is included in left.prepare() and in right.prepare().
C16_Intersection ==
  arg.op = "RangeIntersection" =>
    \A v \in Probes : Includes(res.out, v) <=> Includes(arg.left, v) /\ Includes(arg.right, v)

\* C17: a value is included in RangeUnion(left, right).prepare() iff it is
\* included in left.prepare() or in right.prepare(), and ranges that touch are
\* made one only when the shared bound belongs to one of them.
C17_Union ==
  arg.op = "RangeUnion" =>
    \A v \in Probes : Includes(res.out, v) <=> Includes(arg.left, v) \/ Includes(arg.right, v)

\* x <= 2 united with 2 < x <= 4, and the other way round: one range.
C17_Witness ==
  /\ arg.op = "RangeUnion" /\ Len(arg.left) = 1 /\ Len(arg.right) = 1
  /\ \E a, b \in {arg.left[1], arg.right[1]} :
       /\ a.upper = 2 /\ ~a.upperOpen /\ a.lower = Undef
       /\ b.lower = 2 /\ b.lowerOpen /\ b.upper = 4
  /\ Len(res.out) = 1 /\ res.out[1].lower = Undef /\ res.out[1].upper = 4

\* The secondary indexes of the store of arg that have a usable key range, all
\* of them or only those that are not multiEntry, unique or not.
Usable(all, unique) ==
  {i \in 1..Len(arg.store.indexes) :
     /\ all \/ ~arg.store.indexes[i].multiEntry
     /\ arg.store.indexes[i].unique = unique
     /\ UsableKeyRanges(arg.keyRanges.at, arg.store.indexes[i].keyPaths) # <<>>}

\* C18: chooseBestIndex returns the primary key when it has a usable key range,
\* otherwise a unique secondary index that has one, otherwise a non-unique
\* secondary index that has one, otherwise no index.
C18_BestIndex ==
  res.stage = "chosen" =>
    IF UsableKeyRanges(arg.keyRanges.at, arg.store.keyPaths) # <<>> THEN res.best.index = 0
    ELSE IF Usable(TRUE, TRUE) # {} THEN res.best.index \in Usable(TRUE, TRUE)
    ELSE IF Usable(TRUE, FALSE) # {} THEN res.best.index \in Usable(TRUE, FALSE)
    ELSE res.best.index = -1

\* C18 (amended): the same among the secondary indexes that are not
\* multiEntry; the ranges returned are the usable ones of the index chosen.
C18_BestIndexNotMultiEntry ==
  res.stage = "chosen" =>
    /\ IF UsableKeyRanges(arg.keyRanges.at, arg.store.keyPaths) # <<>> THEN res.best.index = 0
       ELSE IF Usable(FALSE, TRUE) # {} THEN res.best.index \in Usable(FALSE, TRUE)
       ELSE IF Usable(FALSE, FALSE) # {} THEN res.best.index \in Usable(FALSE, FALSE)
       ELSE res.best.index = -1
    /\ res.best.index > 0 =>
         res.best.ranges = UsableKeyRanges(arg.keyRanges.at,
                                           arg.store.indexes[res.best.index].keyPaths)

\* A non-unique index comes after a unique one in indexNames, both usable, the
\* primary key not: the unique one is chosen.
C18_Witness ==
  /\ res.stage = "chosen" /\ res.best.index = 1
  /\ Usable(FALSE, TRUE) = {1} /\ Usable(FALSE, FALSE) = {2}
  /\ UsableKeyRanges(arg.keyRanges.at, arg.store.keyPaths) = <<>>

\* The keys (e1, ..., en-1, k) with k in the range of the scan.
ScanKeys ==
  {key \in [1..Len(arg.equals) + 1 -> Probes] :
     /\ \A i \in 1..Len(arg.equals) : key[i] = arg.equals[i]
     /\ RangeIncludes(arg.range, key[Len(arg.equals) + 1])}

\* The keys the cursor has delivered.
Visited == {res.visited[i] : i \in DOMAIN res.visited}

\* C19: a composite index used with equalities on all of its key paths but the
\* last and a range on the last is scanned over exactly the keys
\* (e1, ..., en-1, k) with k in the range, whatever ends are bounded or open:
\* the cursor delivers no other key and none twice, and when the stream
\* completes it has delivered every such key whose record the index held all
\* through the scan - all of them when no other request wrote to the store.
C19_CompositeScan ==
  res.stage \in {"open", "scanned"} =>
    /\ Visited \subseteq ScanKeys
    /\ \A i, j \in DOMAIN res.visited : i # j => res.visited[i] # res.visited[j]
    /\ res.stage = "scanned" =>
         /\ \A key \in ScanKeys :
              (\A q \in DOMAIN res.requests : res.requests[q] # key) => key \in Visited
         /\ res.requests = <<>> => Visited = ScanKeys

\* Two equalities and 2 < k <= 4, completed with no other request: a key with
\* k = 4 is visited, one with k = 2 is not.
C19_Witness ==
  /\ res.stage = "scanned" /\ Len(arg.equals) = 2 /\ res.requests = <<>>
  /\ arg.range = [lower |-> 2, upper |-> 4, lowerOpen |-> TRUE, upperOpen |-> FALSE]
  /\ arg.equals \o <<4>> \in Visited
  /\ arg.equals \o <<2>> \notin Visited

\* The comparison with its sides exchanged: e >= k is k <= e.
Mirror(op) ==
  CASE op = ">=" -> "<=" [] op = ">" -> "<" [] op = "<=" -> ">=" [] op = "<" -> ">"
    [] OTHER -> op

\* C20: the key range extracted for a key path on the right side of a
\* comparison is the one extracted for the mirrored comparison with the key
\* path on the left, with the same open and closed bounds.
C20_Mirrored ==
  res.stage = "extracted" /\ arg.i = 1 /\ ~arg.complement =>
    res.keyRange = ExtractKeyRanges(Mirror(arg.op), 0, FALSE)

\* C21: after TermGroups.merge and after repeated parse calls on one group,
\* every $$subs[i] reference of every term of the group evaluates, in the
\* term's compiled expression, to the substituted value it was written for.
C21_SubstitutionsPreserved ==
  res.stage = "groups" =>
    \A g \in {res.this, res.other}, d \in Names :
      g.terms[d] # <<>> =>
        \A i \in DOMAIN g.terms[d][1].node :
          Reads(g.terms[d][1])[i] = g.terms[d][1].node[i].denotes

\* The builder operations that would modify a query.
Modifying ==
  {"select", "where", "join", "antiJoin", "leftJoin", "rightJoin", "fullJoin", "on",
   "orderBy", "order", "nulls", "groupBy", "into", "returning", "union", "unionAll",
   "memoize"}

\* C22: once finalize() has finalized the query, every modifying builder
\* operation called on it throws.
C22_ModifyThrows ==
  [][res.stage = "builder" /\ res.mode.finalized /\ res'.call \in Modifying
       => res'.thrown]_vars

\* from, fullJoin, on, join, finalize: the join above takes the term of the anti
\* join, the query is finalized, and the orderBy that follows throws.
C22_Witness ==
  /\ res.stage = "builder" /\ res.mode.finalized /\ res.call = "orderBy" /\ res.thrown
  /\ \E j \in DOMAIN res.heap :
       /\ res.queryRelation = j \/ res.heap[res.queryRelation].relation = j
       /\ res.heap[j].class = "Join" /\ res.heap[j].childName = "lRelation"
       /\ res.heap[res.heap[j].relation].class = "CompositeUnion"
       /\ res.heap[res.heap[j].relation].terms > 0

\* C23: after finalize() no builder call changes the finalized tree.
C23_TreeFrozen ==
  [][res.stage = "builder" /\ res.mode.finalized
       => TreeOf(res'.heap, res'.queryRelation) = TreeOf(res.heap, res.queryRelation)]_vars

\* The tuple a non-inner join n generates for the left tuple a.
GeneratedTuple(n, a) ==
  [m \in Names |-> IF Schema(n.rRelation)[m] # 0 THEN Otherwise ELSE a[m]]

\* Occurrences of x in the sequence s.
Count(s, x) == Cardinality({i \in DOMAIN s : s[i] = x})

\* C24: when the finalized plan is an outer or anti join that runs without
\* error, each left tuple whose right side yields no tuple gives exactly one
\* generated tuple (the left tuple with the otherwise sentinel under every
\* right source name), a left tuple whose right side yields tuples gives no
\* generated tuple, and an anti join emits nothing but generated tuples.
C24_GeneratedTuple ==
  res.stage = "ran" /\ res.plan.root.class = "Join" /\ res.plan.root.type # "inner"
    /\ ~res.result.err =>
    LET n == res.plan.root
        out == res.result.out
        lefts == NodeExecute(n.lRelation, EmptyTuple, res.stores).out
    IN  /\ \A k \in DOMAIN lefts :
             LET a == lefts[k]
                 rights == NodeExecute(n.rRelation, a, res.stores).out
             IN  Count(out, GeneratedTuple(n, a))
                   = IF rights = <<>> THEN Count(lefts, a) ELSE 0
        /\ n.type = "anti" =>
             \A i \in DOMAIN out :
               \E k \in DOMAIN lefts : out[i] = GeneratedTuple(n, lefts[k])

\* C24 amended: the join generates that tuple for each left tuple whose right
\* side yields no tuple and for no other, and then applies its own predicates
\* to generated tuples as to pairs: the generated tuple is emitted exactly once
\* when the right side is empty and every predicate kept at the join holds of
\* it, and not at all otherwise; an anti join emits generated tuples only.
C24_GeneratedThenFiltered ==
  res.stage = "ran" /\ res.plan.root.class = "Join" /\ res.plan.root.type # "inner"
    /\ ~res.result.err =>
    LET n == res.plan.root
        out == res.result.out
        lefts == NodeExecute(n.lRelation, EmptyTuple, res.stores).out
    IN  /\ \A k \in DOMAIN lefts :
             LET a == lefts[k]
                 rights == NodeExecute(n.rRelation, a, res.stores).out
                 passes == EvalAtoms(Flatten(n.predicates), GeneratedTuple(n, a)) = "true"
             IN  Count(out, GeneratedTuple(n, a))
                   = IF rights = <<>> /\ passes THEN Count(lefts, a) ELSE 0
        /\ n.type = "anti" =>
             \A i \in DOMAIN out :
               \E k \in DOMAIN lefts : out[i] = GeneratedTuple(n, lefts[k])

\* An outer join that keeps the term b.x === 1 of a where() above it, over a
\* left store of two records: the right side is empty for both, both generated
\* tuples are dropped by the predicate.
C24_Witness ==
  /\ res.stage = "ran" /\ res.plan.root.class = "Join" /\ res.plan.root.type = "outer"
  /\ ~res.result.err
  /\ res.plan.root.predicates # <<>>
  /\ Len(NodeExecute(res.plan.root.lRelation, EmptyTuple, res.stores).out) = 2
  /\ res.stores["b"] = <<>>
  /\ res.result.out = <<>>

\* C25: a Join emits in nested-loop order, the tuples derived from one left
\* tuple consecutively and the groups in the order of the left input, also
\* when the right side is a cursor whose records arrive on later ticks.
C25_NestedLoopOrder ==
  res.stage = "join" =>
    \A i, j \in DOMAIN res.out : i < j => res.out[i].left <= res.out[j].left

\* C26: when isEquality() is true of a Range or of a RangeIntersection, what
\* prepare() returns is empty or one closed range of a single key, so that the
\* index executor's test of prepared[0].isEquality() passes.
C26_EqualityPrepared ==
  res.stage = "prepared" /\ arg.equality = "true" =>
    \/ res.out = <<>>
    \/ Len(res.out) = 1 /\ RangeIsEquality(res.out[1]) = "true"

\* C27: an OrderBy directly over an OrderBy is finalized to one OrderBy over
\* the grandchild whose sort gives the entries of the outer OrderBy the highest
\* priority: the inner entries order two tuples only when the outer entries
\* compare them equal.
C27_OuterFirst ==
  res.stage = "compared" /\ Len(arg.chain) = 2
    /\ arg.chain[1].class = "OrderBy" /\ arg.chain[2].class = "OrderBy" =>
    LET inner == OrderCompare(res.built[2].ordering, res.a, res.b)
        outer == OrderCompare(res.built[3].ordering, res.a, res.b)
    IN  /\ res.heap[res.root].relation = 1
        /\ ~res.c.threw /\ ~inner.threw /\ ~outer.threw =>
             res.c.c = IF outer.c # 0 THEN outer.c ELSE inner.c

\* C29: after finalization no OrderBy has an OrderBy as its direct child,
\* however many orderBy calls follow one another.
C29_Collapsed ==
  res.stage = "hoisted" =>
    LET t == TreeOf(res.heap, res.root)
    IN  \A k \in 1..Len(t) - 1 : ~(t[k].class = "OrderBy" /\ t[k + 1].class = "OrderBy")

\* C28: when a Where stands over an outer or anti join, the terms of the Where
\* that yield no key range (a comparison other than through $$cmp, or a call)
\* and depend on the join's right relation are the predicates of that Join,
\* all of them and nothing else.
C28_KeptAtJoin ==
  res.stage = "plan" /\ ~res.plan.err
    /\ arg.tree.class = "Where" /\ arg.tree.relation.class = "Join"
    /\ arg.tree.relation.type # "inner" =>
    LET terms == arg.tree.termGroups.terms
        rSchema == Schema(arg.tree.relation.rRelation)
        NoKeyRange(t) == \E i \in DOMAIN t.atoms : t.atoms[i].op # "=="
        kept == SelectSeq(terms, LAMBDA t : NoKeyRange(t) /\ Depends(t, rSchema))
    IN  SameBag(Flatten(res.plan.root.predicates),
                Flatten([i \in DOMAIN kept |-> kept[i].atoms]))

\* C30: key-range extraction is sound: every key k for which the comparison,
\* negated or not, holds of the tuple lies in the key range extracted for
\* the key path, as prepared in the tuple's context.
C30_ExtractionSound ==
  res.stage = "extracted" /\ res.keyRange.found /\ ~res.threw =>
    \A k \in Probes :
      LET c == IF arg.i = 0 THEN Cmp(k, arg.e) ELSE Cmp(arg.e, k)
          holds == CASE arg.op = "===" -> c = 0
                     [] arg.op = ">=" -> c >= 0
                     [] arg.op = ">" -> c > 0
                     [] arg.op = "<=" -> c <= 0
                     [] OTHER -> c < 0
      IN  (holds # arg.complement) => Includes(res.prepared, k)

====
